---- MODULE Spec2Model ----
(***************************************************************************)
(* Model of the main process of the MP3 genre cleaner / lyric-based naming *)
(* application (src/unnamed/part_001): the handlers read-mp3-metadata,     *)
(* preview-naming-changes and apply-naming-changes, the template renderer  *)
(* processTemplate, and the folder and tag store they act on.              *)
(*                                                                         *)
(* Strings are sequences of atoms (an atom is a character or a fixed       *)
(* multi-character piece such as ".mp3" or "Temp_"); concatenation is \o.  *)
(* The atoms are chosen so that no atom is a concatenation of others, so   *)
(* two sequences are equal exactly when the strings they spell are equal.  *)
(***************************************************************************)
EXTENDS Integers, Sequences, FiniteSets

\* ------------------------------------------------------------------ bounds
\* number of track records in the list handed to a handler
MaxTracks == 3
\* largest track number recorded on a track before the first run
MaxRecorded == 4
\* number of apply-naming-changes calls in one behaviour
MaxRuns == 2
\* number of read-mp3-metadata calls in one behaviour
MaxScans == 1
\* highest number borne by a file that is in the folder before the older
\* apply-naming-changes runs, and highest startNumber of its rule
MaxOccupied == 3
MaxStart == 2
\* number of tracks listed when the older apply-naming-changes is called
MaxListed == 2

\* the genres of a track, the examples apart
MaxGenres == 3
\* number of start-scraping calls and of stop-scraping calls in one behaviour
MaxSessions == 2
MaxStops == 1
\* length of a template handed to processTemplate, and width NN of its
\* {number:NNd} directives
MaxTemplate == 2
MaxWidth == 3

\* --------------------------------------------------------------- state
VARIABLES
    rulesList,      \* the rule list the renderer passes to the handlers
    trackList,      \* the track list the renderer holds and passes on
    disk,           \* file identity -> path, for the files of the folder
    tags,           \* file identity -> ID3 tags
    fileState,      \* file identity -> "ok", "unreadable" (read throws),
                    \* "unwritable" (write throws), "rejected" (write returns
                    \* a failure), "locked" (rename throws)
    namingState,    \* the module-level progress state
    previewResult,  \* what the last preview-naming-changes call returned
    applyResult,    \* what the last apply-naming-changes call computed and returned
    runs,           \* number of apply-naming-changes calls so far
    scans,          \* number of read-mp3-metadata calls so far
    cancelRequest,  \* the user's request to stop the batch: whether one is
                    \* made, and after how many handled tracks it is made
    rendering,      \* one call of processTemplate: its arguments and outcome
    cleaning,       \* one genre cleanup: the selection, each listed track's
                    \* genres before and after, and what update-mp3-genres
                    \* returned
    folderState,    \* "ok", or "unlistable" (readdirSync throws)
    scanResult,     \* what the last read-mp3-metadata call returned
    scraperState,   \* the module-level state of the scraper
    sessions        \* the start-scraping and stop-scraping calls made so far
                    \* and where each one stands, and whether closing the
                    \* browser throws

vars == <<rulesList, trackList, disk, tags, fileState, namingState,
          previewResult, applyResult, runs, scans, cancelRequest, rendering,
          cleaning, folderState, scanResult, scraperState, sessions>>

\* ------------------------------------------------------------- JS helpers
Range(s) == {s[i] : i \in DOMAIN s}

Digits == <<"0", "1", "2", "3", "4", "5", "6", "7", "8", "9">>

IsDigit(c) == c \in Range(Digits)

DigitVal(c) == (CHOOSE i \in DOMAIN Digits : Digits[i] = c) - 1

\* Number.prototype.toString of a non-negative integer: its decimal digits
RECURSIVE toString(_)
toString(n) ==
    IF n < 10 THEN <<Digits[n + 1]>>
    ELSE toString(n \div 10) \o <<Digits[(n % 10) + 1]>>

\* NaN, the result of parseInt on a string that does not start with a digit.
\* It is only ever compared with positive integers, tested with "> 0" and
\* passed to "|| 0", which OrZero models.
NaN == 0 - 1

RECURSIVE LeadingDigits(_, _)
LeadingDigits(s, acc) ==
    IF s = <<>> \/ ~IsDigit(Head(s)) THEN acc
    ELSE LeadingDigits(Tail(s), acc * 10 + DigitVal(Head(s)))

\* parseInt(s): the value of the leading decimal digits of s (whitespace
\* before them skipped), NaN when there is none (also for undefined, which
\* the model writes as the empty string)
RECURSIVE parseInt(_)
parseInt(s) ==
    IF s = <<>> THEN NaN
    ELSE IF Head(s) = " " THEN parseInt(Tail(s))
    ELSE IF IsDigit(Head(s)) THEN LeadingDigits(s, 0)
    ELSE NaN

\* n || 0
OrZero(n) == IF n = NaN \/ n = 0 THEN 0 ELSE n

\* a padding that cuts a text longer than the width down to its last
\* characters
RECURSIVE padStartCut(_, _)
padStartCut(s, width) ==
    IF Len(s) > width THEN padStartCut(Tail(s), width)
    ELSE IF Len(s) < width THEN padStartCut(<<"0">> \o s, width)
    ELSE s

\* String.prototype.padStart(width, '0')
RECURSIVE padStart(_, _)
padStart(s, width) == IF Len(s) >= width THEN s ELSE padStart(<<"0">> \o s, width)

\* x || y on strings: the empty string (and undefined) is falsy
OrElse(x, y) == IF x = <<>> THEN y ELSE x

Lower(c) ==
    CASE c = "L" -> "l"
      [] c = "M" -> "m"
      [] c = ".MP3" -> ".mp3"
      [] OTHER -> c

\* String.prototype.toLowerCase
toLowerCase(s) == [i \in DOMAIN s |-> Lower(s[i])]

\* String.prototype.includes
includes(hay, needle) ==
    \E i \in 0..Len(hay) :
        /\ i + Len(needle) <= Len(hay)
        /\ \A j \in 1..Len(needle) : hay[i + j] = needle[j]

\* String.prototype.trim
RECURSIVE trimStart(_)
trimStart(s) == IF s # <<>> /\ Head(s) = " " THEN trimStart(Tail(s)) ELSE s

RECURSIVE trimEnd(_)
trimEnd(s) ==
    IF s # <<>> /\ s[Len(s)] = " " THEN trimEnd(SubSeq(s, 1, Len(s) - 1)) ELSE s

trim(s) == trimEnd(trimStart(s))

\* String.prototype.startsWith
startsWith(s, prefix) ==
    /\ Len(s) >= Len(prefix)
    /\ SubSeq(s, 1, Len(prefix)) = prefix

\* ------------------------------------------------------- processTemplate
\* A template is a sequence of tokens [k, v, w]:
\*   k = "lit": the literal atom v (any text that is no placeholder);
\*   k = "var": the placeholder {v}, v one of the keys of the variable bag;
\*   k = "pad": the directive {number:NNd} with NN = w.
VarKeys == {"number", "artist", "title", "album", "genre", "year"}

Lit(a) == [k |-> "lit", v |-> a, w |-> 0]
Var(a) == [k |-> "var", v |-> a, w |-> 0]
Pad(n) == [k |-> "pad", v |-> "number", w |-> n]

\* value.replace(/;/g, ',') for the genre variable
GenreValue(s) == [i \in DOMAIN s |-> IF s[i] = ";" THEN "," ELSE s[i]]

\* String(variables[key]) as substituted for {key}, for a key that has a
\* value
VarValue(key, variables) ==
    CASE key = "number" -> toString(variables.number)
      [] key = "artist" -> variables.artist
      [] key = "title" -> variables.title
      [] key = "album" -> variables.album
      [] key = "genre" -> GenreValue(variables.genre)
      [] key = "year" -> variables.year

\* A variable bag is the record `variables` of the keys that have a value
\* and the set `undefined` of the keys that are in the bag with the value
\* undefined; a key in neither is missing from the bag.
\* What stands for {key} after the loop over Object.keys(variables): the
\* value of a key that has one, the text "undefined" for a key whose value
\* is undefined (result.replace(regex, undefined)), and the placeholder as
\* written for a key the bag does not hold, which the loop never visits.
VarText(key, variables, undefined) ==
    IF key \in DOMAIN variables THEN VarValue(key, variables)
    ELSE IF key \in undefined THEN <<"undefined">>
    ELSE <<"{">> \o <<key>> \o <<"}">>

\* The text of one token after both replacement steps; only the first
\* {number:NNd} of the template is replaced, a later one stays as written.
RenderToken(tok, variables, undefined, firstPad) ==
    CASE tok.k = "lit" -> <<tok.v>>
      [] tok.k = "var" -> VarText(tok.v, variables, undefined)
      [] tok.k = "pad" ->
            IF firstPad THEN padStart(toString(variables.number), tok.w)
            ELSE <<"{number:">> \o toString(tok.w) \o <<"d}">>

RECURSIVE RenderFrom(_, _, _, _, _)
RenderFrom(template, i, variables, undefined, padSeen) ==
    IF i > Len(template) THEN <<>>
    ELSE RenderToken(template[i], variables, undefined, ~padSeen)
            \o RenderFrom(template, i + 1, variables, undefined,
                          padSeen \/ template[i].k = "pad")

\* result.match(/\{number:(\d+)d\}/)
HasPad(template) == \E i \in DOMAIN template : template[i].k = "pad"

\* variables.number.toString() raises a TypeError when the template has a
\* {number:NNd} and number is undefined or missing
Throws(template, variables, undefined) ==
    HasPad(template) /\ "number" \notin DOMAIN variables

\* processTemplate on any bag: whether it raised an error, and the text it
\* returned when it did not
Render(template, variables, undefined) ==
    IF template = <<>> THEN [threw |-> FALSE, value |-> <<>>]
    ELSE IF Throws(template, variables, undefined)
    THEN [threw |-> TRUE, value |-> <<>>]
    ELSE [threw |-> FALSE,
          value |-> RenderFrom(template, 1, variables, undefined, FALSE)]

\* processTemplate as the handlers call it, on a bag with a value for
\* every key
processTemplate(template, variables) == Render(template, variables, {}).value

\* ------------------------------------------------------ match collection
\* new Date().getFullYear(), used for a track record without a year
CurrentYear == <<"2025">>

\* "preview" groups by rule id, "apply" by the rendered album template
Handlers == {"preview", "apply"}

\* a normalisation that reads the list of phrases alone
ValidSearchesOfList(rule) ==
    LET Valid(search) == search # <<>> /\ trim(search) # <<>>
    IN SelectSeq(rule.lyricSearches, Valid)

\* the rule's search phrases, the legacy lyricSearch taken when the list is
\* empty, blank phrases dropped
ValidSearches(rule) ==
    LET listed == rule.lyricSearches
        lyricSearches ==
            IF rule.lyricSearch # <<>> /\ Len(listed) = 0
            THEN <<rule.lyricSearch>> ELSE listed
        Valid(search) == search # <<>> /\ trim(search) # <<>>
    IN SelectSeq(lyricSearches, Valid)

\* a comparison of the lyrics and the phrases as they are written
FoundMatchExact(file, validSearches) ==
    \E i \in DOMAIN validSearches :
        includes(OrElse(file.lyrics, <<>>), validSearches[i])

\* foundMatch: the lower-cased lyrics contain one of the lower-cased phrases
FoundMatch(file, validSearches) ==
    LET lyricsLower == toLowerCase(OrElse(file.lyrics, <<>>))
    IN \E i \in DOMAIN validSearches :
            includes(lyricsLower, toLowerCase(validSearches[i]))

\* the variable bag of a matched file, number still the placeholder 1
Variables(file) ==
    [number |-> 1,
     artist |-> OrElse(file.artist, <<"Unknown Artist">>),
     title |-> OrElse(file.title, <<"Unknown Title">>),
     album |-> OrElse(file.album, <<"Unknown Album">>),
     genre |-> OrElse(file.genre, <<"Unknown">>),
     year |-> OrElse(file.year, CurrentYear)]

\* the key of the numbering group a match is put in
TargetAlbum(handler, rule, variables) ==
    IF handler = "preview" THEN <<"RULE_">> \o toString(rule.id)
    ELSE processTemplate(OrElse(rule.albumTemplate, <<Var("album")>>), variables)

MatchEntry(handler, rule, file) ==
    [file |-> file,
     variables |-> Variables(file),
     targetAlbum |-> TargetAlbum(handler, rule, Variables(file)),
     rule |-> rule,
     ruleId |-> rule.id]

\* a file some rule of this pass has already taken
AlreadyProcessed(processedFiles, ruleProcessedFiles, filePath) ==
    filePath \in processedFiles \/ filePath \in ruleProcessedFiles

\* the loop over filesData for one rule; st = [allMatches, processedFiles,
\* ruleProcessedFiles]
RECURSIVE CollectFiles(_, _, _, _, _)
CollectFiles(handler, rule, filesData, i, st) ==
    IF i > Len(filesData) THEN st
    ELSE LET file == filesData[i] IN
         IF AlreadyProcessed(st.processedFiles, st.ruleProcessedFiles, file.filePath)
         THEN CollectFiles(handler, rule, filesData, i + 1, st)
         ELSE IF FoundMatch(file, ValidSearches(rule))
         THEN CollectFiles(handler, rule, filesData, i + 1,
                [allMatches |-> Append(st.allMatches, MatchEntry(handler, rule, file)),
                 processedFiles |-> st.processedFiles \cup {file.filePath},
                 ruleProcessedFiles |-> st.ruleProcessedFiles \cup {file.filePath}])
         ELSE CollectFiles(handler, rule, filesData, i + 1, st)

\* the loop over namingRules; a rule without a valid search is skipped
RECURSIVE CollectRules(_, _, _, _, _)
CollectRules(handler, namingRules, filesData, ruleIndex, st) ==
    IF ruleIndex > Len(namingRules) THEN st
    ELSE LET rule == namingRules[ruleIndex] IN
         IF Len(ValidSearches(rule)) = 0
         THEN CollectRules(handler, namingRules, filesData, ruleIndex + 1, st)
         ELSE CollectRules(handler, namingRules, filesData, ruleIndex + 1,
                CollectFiles(handler, rule, filesData, 1,
                             [st EXCEPT !.ruleProcessedFiles = {}]))

\* a processedFiles set kept at module level would still hold the paths
\* of the last preview when the next pass starts
StaleProcessedFiles ==
    {previewResult.matches[i].originalPath : i \in DOMAIN previewResult.matches}

\* const processedFiles = new Set(): empty at the start of every pass
NewProcessedFiles == {}

\* allMatches of a pass, in the order the entries were pushed
CollectMatches(handler, namingRules, filesData) ==
    CollectRules(handler, namingRules, filesData, 1,
                 [allMatches |-> <<>>, processedFiles |-> NewProcessedFiles,
                  ruleProcessedFiles |-> {}]).allMatches

\* the keys of albumGroupsMap in insertion order
RECURSIVE GroupKeys(_, _)
GroupKeys(allMatches, seen) ==
    IF allMatches = <<>> THEN <<>>
    ELSE LET key == Head(allMatches).targetAlbum IN
         IF key \in seen THEN GroupKeys(Tail(allMatches), seen)
         ELSE <<key>> \o GroupKeys(Tail(allMatches), seen \cup {key})

\* albumGroupsMap.get(key)
AlbumFiles(allMatches, key) ==
    LET InGroup(entry) == entry.targetAlbum = key
    IN SelectSeq(allMatches, InGroup)

\* the record pushed on matches for an entry that is given currentTrack
MatchRecord(entry, currentTrack) ==
    LET variables == [entry.variables EXCEPT !.number = currentTrack]
        newArtist == processTemplate(entry.rule.artistTemplate, variables)
        newTitle == processTemplate(entry.rule.songTemplate, variables)
        newAlbum == processTemplate(entry.rule.albumTemplate, variables)
        newFilename ==
            processTemplate(entry.rule.filenameTemplate, variables) \o <<".mp3">>
    IN [originalFilename |-> entry.file.filename,
        originalPath |-> entry.file.filePath,
        newFilename |-> OrElse(newFilename, entry.file.filename),
        newArtist |-> OrElse(newArtist, entry.file.artist),
        newTitle |-> OrElse(newTitle, entry.file.title),
        newAlbum |-> OrElse(newAlbum, entry.file.album),
        originalArtist |-> entry.file.artist,
        originalTitle |-> entry.file.title,
        originalAlbum |-> entry.file.album,
        ruleId |-> entry.rule.id,
        variables |-> variables]

TrackNum(entry) == parseInt(entry.file.trackNumber)

\* withTrack.filter(e => e !== entry)
Without(entries, entry) ==
    LET Other(e) == e # entry IN SelectSeq(entries, Other)

\* ------------------------------------------- numbering, preview handler
\* albumFiles.forEach of the preview handler: st = [withTrack, withoutTrack,
\* trackNumberMap, duplicates]; trackNumberMap maps a number to the first
\* entry that records it
RECURSIVE PreviewSplit(_, _, _)
PreviewSplit(albumFiles, i, st) ==
    IF i > Len(albumFiles) THEN st
    ELSE LET entry == albumFiles[i]
             trackNum == TrackNum(entry)
         IN PreviewSplit(albumFiles, i + 1,
              IF trackNum > 0
              THEN IF trackNum \in DOMAIN st.trackNumberMap
                   THEN [st EXCEPT !.duplicates = Append(@, entry)]
                   ELSE [st EXCEPT
                           !.trackNumberMap =
                               [n \in DOMAIN @ \cup {trackNum} |->
                                   IF n = trackNum THEN entry ELSE @[n]],
                           !.withTrack = Append(@, entry)]
              ELSE [st EXCEPT !.withoutTrack = Append(@, entry)])

\* the entry of withTrack with the largest recorded number, the first one
\* on a tie (preview handler, third branch)
RECURSIVE PreviewMaxEntry(_, _, _)
PreviewMaxEntry(withTrack, i, maxEntry) ==
    IF i > Len(withTrack) THEN maxEntry
    ELSE PreviewMaxEntry(withTrack, i + 1,
            IF OrZero(TrackNum(withTrack[i])) > OrZero(TrackNum(maxEntry))
            THEN withTrack[i] ELSE maxEntry)

\* one iteration of the while loop of the preview handler
PreviewStep(st) ==
    IF st.currentTrack \in DOMAIN st.trackNumberMap
    THEN LET entry == st.trackNumberMap[st.currentTrack] IN
         [st EXCEPT !.matches = Append(@, MatchRecord(entry, st.currentTrack)),
                    !.withTrack = Without(@, entry),
                    !.currentTrack = @ + 1]
    ELSE IF Len(st.withoutTrack) > 0
    THEN LET entry == Head(st.withoutTrack) IN
         [st EXCEPT !.matches = Append(@, MatchRecord(entry, st.currentTrack)),
                    !.withoutTrack = Tail(@),
                    !.currentTrack = @ + 1]
    ELSE IF Len(st.withTrack) > 0
    THEN LET maxEntry == PreviewMaxEntry(st.withTrack, 1, st.withTrack[1]) IN
         [st EXCEPT !.matches = Append(@, MatchRecord(maxEntry, st.currentTrack)),
                    !.withTrack = Without(@, maxEntry),
                    !.currentTrack = @ + 1]
    ELSE [st EXCEPT !.currentTrack = @ + 1]

RECURSIVE PreviewLoop(_)
PreviewLoop(st) ==
    IF Len(st.withTrack) + Len(st.withoutTrack) > 0
    THEN PreviewLoop(PreviewStep(st))
    ELSE st

\* the numbering of one group by the preview handler: the final loop state
PreviewGroup(albumFiles) ==
    LET split == PreviewSplit(albumFiles, 1,
                    [withTrack |-> <<>>, withoutTrack |-> <<>>,
                     trackNumberMap |-> <<>>, duplicates |-> <<>>])
    IN PreviewLoop([currentTrack |-> 1,
                    withTrack |-> split.withTrack,
                    withoutTrack |-> split.withoutTrack \o split.duplicates,
                    trackNumberMap |-> split.trackNumberMap,
                    matches |-> <<>>])

\* --------------------------------------------- numbering, apply handler
\* the keys of trackNumberMap of the apply handler, in insertion order
RECURSIVE NumberKeys(_, _)
NumberKeys(albumFiles, seen) ==
    IF albumFiles = <<>> THEN <<>>
    ELSE LET trackNum == TrackNum(Head(albumFiles)) IN
         IF trackNum > 0 /\ trackNum \notin seen
         THEN <<trackNum>> \o NumberKeys(Tail(albumFiles), seen \cup {trackNum})
         ELSE NumberKeys(Tail(albumFiles), seen)

\* trackNumberMap.get(trackNum) of the apply handler
EntriesWith(albumFiles, trackNum) ==
    LET Records(entry) == TrackNum(entry) = trackNum
    IN SelectSeq(albumFiles, Records)

\* the move of the duplicates: per key, the first entry goes to withTrack,
\* the others are appended to withoutTrack
RECURSIVE ApplySplit(_, _, _, _)
ApplySplit(albumFiles, keys, i, st) ==
    IF i > Len(keys) THEN st
    ELSE LET entries == EntriesWith(albumFiles, keys[i]) IN
         ApplySplit(albumFiles, keys, i + 1,
            [withTrack |-> Append(st.withTrack, entries[1]),
             withoutTrack |-> st.withoutTrack \o Tail(entries)])

\* a lookup by position in withTrack instead of by recorded number
FindTrackByPosition(withTrack, currentTrack) ==
    IF currentTrack \in DOMAIN withTrack THEN currentTrack ELSE 0

\* withTrack.find(e => parseInt(e.file.trackNumber) === currentTrack): the
\* index of the first such entry, 0 when there is none
FindTrack(withTrack, currentTrack) ==
    IF \E i \in DOMAIN withTrack : TrackNum(withTrack[i]) = currentTrack
    THEN CHOOSE i \in DOMAIN withTrack :
            /\ TrackNum(withTrack[i]) = currentTrack
            /\ \A j \in 1..(i - 1) : TrackNum(withTrack[j]) # currentTrack
    ELSE 0

\* the scan of the third branch of the apply handler: it starts from
\* withTrack[0], assigned or not, and moves to an entry only if that entry
\* is not assigned and records a larger number
RECURSIVE ApplyMaxEntry(_, _, _, _, _)
ApplyMaxEntry(withTrack, i, assigned, maxEntry, maxNum) ==
    IF i > Len(withTrack) THEN maxEntry
    ELSE LET e == withTrack[i]
             n == OrZero(TrackNum(e))
         IN IF e \notin assigned /\ n > maxNum
            THEN ApplyMaxEntry(withTrack, i + 1, assigned, e, n)
            ELSE ApplyMaxEntry(withTrack, i + 1, assigned, maxEntry, maxNum)

\* one iteration of the while loop of the apply handler
ApplyStep(st) ==
    LET found == FindTrack(st.withTrack, st.currentTrack) IN
    IF found # 0
    THEN LET entry == st.withTrack[found] IN
         [st EXCEPT !.matches = Append(@, MatchRecord(entry, st.currentTrack)),
                    !.assigned = @ \cup {entry},
                    !.currentTrack = @ + 1]
    ELSE IF Len(st.withoutTrack) > 0
    THEN LET entry == Head(st.withoutTrack) IN
         [st EXCEPT !.matches = Append(@, MatchRecord(entry, st.currentTrack)),
                    !.withoutTrack = Tail(@),
                    !.assigned = @ \cup {entry},
                    !.currentTrack = @ + 1]
    ELSE IF Len(st.withTrack) > 0
    THEN LET maxEntry == ApplyMaxEntry(st.withTrack, 1, st.assigned,
                            st.withTrack[1], OrZero(TrackNum(st.withTrack[1])))
         IN [st EXCEPT !.matches = Append(@, MatchRecord(maxEntry, st.currentTrack)),
                       !.assigned = @ \cup {maxEntry},
                       !.currentTrack = @ + 1]
    ELSE [st EXCEPT !.currentTrack = @ + 1]

RECURSIVE ApplyLoop(_)
ApplyLoop(st) ==
    IF Cardinality(st.assigned) < st.totalToAssign
    THEN ApplyLoop(ApplyStep(st))
    ELSE st

\* the numbering of one group by the apply handler: the final loop state
ApplyGroup(albumFiles) ==
    LET Unnumbered(entry) == ~(TrackNum(entry) > 0)
        split == ApplySplit(albumFiles, NumberKeys(albumFiles, {}), 1,
                    [withTrack |-> <<>>,
                     withoutTrack |-> SelectSeq(albumFiles, Unnumbered)])
    IN ApplyLoop([currentTrack |-> 1,
                  assigned |-> {},
                  withTrack |-> split.withTrack,
                  withoutTrack |-> split.withoutTrack,
                  totalToAssign |-> Len(split.withTrack) + Len(split.withoutTrack),
                  matches |-> <<>>])

\* ------------------------------------------------ the matches of a pass
\* the final state of the numbering loop of a group
NumberGroup(handler, albumFiles) ==
    IF handler = "preview" THEN PreviewGroup(albumFiles) ELSE ApplyGroup(albumFiles)

\* the for loop over albumGroupsMap: the records of all groups, in order
RECURSIVE NumberGroups(_, _, _, _)
NumberGroups(handler, allMatches, keys, i) ==
    IF i > Len(keys) THEN <<>>
    ELSE NumberGroup(handler, AlbumFiles(allMatches, keys[i])).matches
            \o NumberGroups(handler, allMatches, keys, i + 1)

\* entry.variables is one object shared by every record pushed for the
\* entry: once the loops are over, each record shows the last number
\* written to it
LastNumber(matches, originalPath) ==
    LET last == CHOOSE i \in DOMAIN matches :
                    /\ matches[i].originalPath = originalPath
                    /\ \A j \in DOMAIN matches :
                          matches[j].originalPath = originalPath => j <= i
    IN matches[last].variables.number

SharedVariables(matches) ==
    [i \in DOMAIN matches |->
        [matches[i] EXCEPT
            !.variables.number = LastNumber(matches, matches[i].originalPath)]]

\* results.matches (preview) and previewResult.matches (apply)
Matches(handler, namingRules, filesData) ==
    LET allMatches == CollectMatches(handler, namingRules, filesData)
    IN SharedVariables(
          NumberGroups(handler, allMatches, GroupKeys(allMatches, {}), 1))

\* ------------------------------------------------------------ the folder
\* All files are in one folder; a path is the folder atom followed by the
\* file name.  disk maps the identity of each existing file to its path,
\* tags maps it to its ID3 tags, fileState to what the environment lets
\* be done with it.
Dir == <<"dir/">>

\* path.join(dir, name)
Join(dir, name) == dir \o name

\* path.dirname(p)
Dirname(p) == <<Head(p)>>

\* fs.existsSync
existsSync(d, p) == \E id \in DOMAIN d : d[id] = p

FileAt(d, p) == CHOOSE id \in DOMAIN d : d[id] = p

\* fs.renameSync(oldPath, newPath) when it succeeds: a file that held
\* newPath is replaced
renameSync(d, oldPath, newPath) ==
    IF oldPath = newPath THEN d
    ELSE LET moved == FileAt(d, oldPath)
             kept == {id \in DOMAIN d : d[id] # newPath}
         IN [id \in kept |-> IF id = moved THEN newPath ELSE d[id]]

\* ------------------------------------------------ apply: the file loop
Result(match, success, error, warning, newFilename) ==
    [filename |-> match.originalFilename,
     success |-> success,
     error |-> error,
     warning |-> warning,
     newFilename |-> newFilename]

\* the tags written for a match: artist, title and album where the new
\* value differs from the original one of the track record, the track
\* number where it differs from the one read
MergedTags(fileTags, match) ==
    LET t1 == IF match.newArtist # match.originalArtist
              THEN [fileTags EXCEPT !.artist = match.newArtist] ELSE fileTags
        t2 == IF match.newTitle # match.originalTitle
              THEN [t1 EXCEPT !.title = match.newTitle] ELSE t1
        t3 == IF match.newAlbum # match.originalAlbum
              THEN [t2 EXCEPT !.album = match.newAlbum] ELSE t2
        newTrackNumber == match.variables.number
    IN IF newTrackNumber # 0 /\ t3.trackNumber # toString(newTrackNumber)
       THEN [t3 EXCEPT !.trackNumber = toString(newTrackNumber)] ELSE t3

\* the name the first pass renames to: Temp_ is put in front when the
\* target exists
FinalFilename(d, match) ==
    IF existsSync(d, Join(Dirname(match.originalPath), match.newFilename))
    THEN <<"Temp_">> \o match.newFilename
    ELSE match.newFilename

\* a file that is reported missing but handled like any other
FileNotFoundIgnored(st, match) ==
    [st EXCEPT !.updated = @ + 1,
               !.results = Append(@, Result(match, TRUE, <<>>, <<>>, match.newFilename))]

\* the file of the match does not exist: a failure is recorded
FileNotFound(st, match) ==
    [st EXCEPT !.results =
        Append(@, Result(match, FALSE, <<"File not found">>, <<>>, <<>>))]

\* a rename error reported as a failure of the file, its tags left unwritten
RenameCatchAsFailure(st, match, written) ==
    [st EXCEPT !.results =
        Append(@, Result(match, FALSE, <<"rename failed">>, <<>>, <<>>))]

\* a rename error reported with its warning but left out of the count
RenameCatchUncounted(st, match, written) ==
    [st EXCEPT !.tags = written,
               !.results = Append(@, Result(match, TRUE, <<>>,
                                <<"Metadata updated but file rename failed">>,
                                match.originalFilename))]

\* catch (renameError): the tags are written, the file keeps its name
RenameCatch(st, match, written) ==
    [st EXCEPT !.tags = written,
               !.updated = @ + 1,
               !.results = Append(@, Result(match, TRUE, <<>>,
                                <<"Metadata updated but file rename failed">>,
                                match.originalFilename))]

\* the body of the for loop over previewResult.matches for match i;
\* st = [disk, tags, fileState, matches, updated, results]
ApplyFile(st, i) ==
    LET match == st.matches[i] IN
    IF ~existsSync(st.disk, match.originalPath)
    THEN FileNotFound(st, match)
    ELSE
    LET id == FileAt(st.disk, match.originalPath) IN
    IF st.fileState[id] = "unreadable"
    THEN [st EXCEPT !.results =
            Append(@, Result(match, FALSE, <<"Cannot read MP3 metadata">>, <<>>, <<>>))]
    ELSE IF st.fileState[id] = "unwritable"
    THEN [st EXCEPT !.results =
            Append(@, Result(match, FALSE, <<"Cannot write MP3 metadata">>, <<>>, <<>>))]
    ELSE
    \* NodeID3.write(tags, path): its returned value is not looked at, so a
    \* write that reports its failure by that value goes on as a success
    LET written == IF st.fileState[id] = "rejected" THEN st.tags
                   ELSE [st.tags EXCEPT ![id] = MergedTags(st.tags[id], match)] IN
    IF match.newFilename = match.originalFilename
    THEN [st EXCEPT !.tags = written,
                    !.updated = @ + 1,
                    !.results = Append(@, Result(match, TRUE, <<>>, <<>>, match.newFilename))]
    ELSE
    LET finalFilename == FinalFilename(st.disk, match)
        newPath == Join(Dirname(match.originalPath), finalFilename)
    IN IF st.fileState[id] = "locked"
       THEN RenameCatch(st, match, written)
       ELSE [st EXCEPT !.tags = written,
                       !.disk = renameSync(@, match.originalPath, newPath),
                       !.matches[i].newFilename = finalFilename,
                       !.updated = @ + 1,
                       !.results = Append(@, Result(match, TRUE, <<>>, <<>>, finalFilename))]

\* a loop that an error of one file brings to its end
RECURSIVE ApplyFilesUntilError(_, _)
ApplyFilesUntilError(st, fileIndex) ==
    IF fileIndex > Len(st.matches) THEN st
    ELSE LET next == ApplyFile(st, fileIndex) IN
         IF next.results[Len(next.results)].success
         THEN ApplyFilesUntilError(next, fileIndex + 1)
         ELSE next

RECURSIVE ApplyFiles(_, _)
ApplyFiles(st, fileIndex) ==
    IF fileIndex > Len(st.matches) THEN st
    ELSE ApplyFiles(ApplyFile(st, fileIndex), fileIndex + 1)

\* the body of the second pass for match i: a Temp_ name is given up for
\* the final name when the final name is free
FinalizeFile(st, i) ==
    LET match == st.matches[i] IN
    IF match.newFilename # <<>> /\ startsWith(match.newFilename, <<"Temp_">>)
    THEN LET dir == Dirname(match.originalPath)
             tempPath == Join(dir, match.newFilename)
             finalPath == Join(dir, Tail(match.newFilename))
         IN IF existsSync(st.disk, tempPath) /\ ~existsSync(st.disk, finalPath)
            THEN IF st.fileState[FileAt(st.disk, tempPath)] = "locked"
                 THEN st
                 ELSE [st EXCEPT !.disk = renameSync(@, tempPath, finalPath),
                                 !.matches[i].newFilename = Tail(match.newFilename)]
            ELSE st
    ELSE st

RECURSIVE FinalizeFiles(_, _)
FinalizeFiles(st, i) ==
    IF i > Len(st.matches) THEN st
    ELSE FinalizeFiles(FinalizeFile(st, i), i + 1)

\* apply-naming-changes after the matches are computed: both passes
ApplyRun(d, t, fs, matches) ==
    FinalizeFiles(
        ApplyFiles([disk |-> d, tags |-> t, fileState |-> fs,
                    matches |-> matches, updated |-> 0, results |-> <<>>], 1),
        1)

\* the arguments of a handler call
Args == [namingRules |-> rulesList, filesData |-> trackList]

\* ------------------------------------------------- read-mp3-metadata
\* the extensions of the files of a folder
Extensions == {".mp3", ".MP3", ".jpg"}

\* path.extname(file)
extname(file) ==
    IF file # <<>> /\ file[Len(file)] \in Extensions
    THEN <<file[Len(file)]>> ELSE <<>>

\* path.extname(file).toLowerCase() === '.mp3'
isMp3(file) == toLowerCase(extname(file)) = <<".mp3">>

\* the record pushed for one .mp3 file; no track number and no year is
\* copied from the tags
ScanRecord(d, t, fs, id) ==
    LET filePath == d[id]
        mp3File == Tail(filePath)
    IN IF fs[id] = "unreadable"
       THEN [filename |-> mp3File, filePath |-> filePath,
             genre |-> <<"Error reading file">>, title |-> <<"Error">>,
             artist |-> <<"Error">>, album |-> <<"Error">>,
             lyrics |-> <<>>, trackNumber |-> <<>>, year |-> <<>>]
       ELSE [filename |-> mp3File, filePath |-> filePath,
             genre |-> OrElse(t[id].genre, <<"Unknown">>),
             title |-> OrElse(t[id].title, <<"Unknown">>),
             artist |-> OrElse(t[id].artist, <<"Unknown">>),
             album |-> OrElse(t[id].album, <<"Unknown">>),
             lyrics |-> OrElse(t[id].lyrics, <<>>),
             trackNumber |-> <<>>, year |-> <<>>]

\* the loop over the files of the folder, which lists them in the order
\* of their identities
RECURSIVE ScanFromUntilError(_, _, _, _, _)
ScanFromUntilError(d, t, fs, id, last) ==
    IF id > last \/ (id \in DOMAIN d /\ fs[id] = "unreadable") THEN <<>>
    ELSE (IF id \in DOMAIN d /\ isMp3(Tail(d[id]))
          THEN <<ScanRecord(d, t, fs, id)>> ELSE <<>>)
            \o ScanFromUntilError(d, t, fs, id + 1, last)

RECURSIVE ScanFrom(_, _, _, _, _)
ScanFrom(d, t, fs, id, last) ==
    IF id > last THEN <<>>
    ELSE (IF id \in DOMAIN d /\ isMp3(Tail(d[id]))
          THEN <<ScanRecord(d, t, fs, id)>> ELSE <<>>)
            \o ScanFrom(d, t, fs, id + 1, last)

Permuted(files, p) == [i \in DOMAIN files |-> files[p[i]]]

Permutations(n) ==
    {p \in [1..n -> 1..n] : \A i, j \in 1..n : i # j => p[i] # p[j]}

\* readdirSync returns the names in the order of the file system, which is
\* any order
Listings(d, t, fs) ==
    LET files == ScanFrom(d, t, fs, 1, MaxTracks)
    IN {Permuted(files, p) : p \in Permutations(Len(files))}

\* the renderer replaces its track list by what read-mp3-metadata returns
Scan ==
    /\ scans < MaxScans
    /\ IF folderState = "unlistable"
       THEN /\ scanResult' = [called |-> TRUE, threw |-> TRUE, results |-> <<>>]
            /\ UNCHANGED trackList
       ELSE \E results \in Listings(disk, tags, fileState) :
                /\ scanResult' = [called |-> TRUE, threw |-> FALSE,
                                  results |-> results]
                /\ trackList' = results
    /\ scans' = scans + 1
    /\ UNCHANGED <<rulesList, disk, tags, fileState, namingState,
                   previewResult, applyResult, runs,
                   cancelRequest, rendering,
                   cleaning, folderState, scraperState, sessions>>

\* a preview that writes the numbers it assigns to the tags of the files
PreviewWritingTags ==
    /\ LET matches == Matches("preview", rulesList, trackList)
       IN /\ previewResult' =
                [called |-> TRUE, args |-> Args,
                 totalMatches |-> Len(matches), matches |-> matches]
          /\ tags' =
                [id \in DOMAIN tags |->
                    IF \E i \in DOMAIN matches : matches[i].originalPath = disk[id]
                    THEN [tags[id] EXCEPT !.trackNumber =
                            toString(LastNumber(matches, disk[id]))]
                    ELSE tags[id]]
    /\ namingState' = [currentWindow |-> "window", isRunning |-> FALSE]
    /\ UNCHANGED <<rulesList, trackList, disk, fileState,
                   applyResult, runs, scans, cancelRequest, rendering,
                   cleaning, folderState, scanResult, scraperState, sessions>>

\* ---------------------------------------------- preview-naming-changes
Preview ==
    /\ previewResult' =
          LET matches == Matches("preview", rulesList, trackList)
          IN [called |-> TRUE, args |-> Args,
              totalMatches |-> Len(matches), matches |-> matches]
    /\ namingState' = [currentWindow |-> "window", isRunning |-> FALSE]
    /\ UNCHANGED <<rulesList, trackList, disk, tags, fileState,
                   applyResult, runs, scans, cancelRequest, rendering,
                   cleaning, folderState, scanResult, scraperState, sessions>>

\* ------------------------------------------------ apply-naming-changes
Apply ==
    /\ runs < MaxRuns
    /\ LET matches == Matches("apply", rulesList, trackList)
           done == ApplyRun(disk, tags, fileState, matches)
       IN /\ applyResult' =
                [called |-> TRUE, args |-> Args, matches |-> matches,
                 updated |-> done.updated, results |-> done.results]
          /\ disk' = done.disk
          /\ tags' = done.tags
    /\ namingState' = [currentWindow |-> "window", isRunning |-> FALSE]
    /\ runs' = runs + 1
    /\ UNCHANGED <<rulesList, trackList, fileState, previewResult, scans,
                   cancelRequest, rendering,
                   cleaning, folderState, scanResult, scraperState, sessions>>

Next == Scan \/ Preview \/ Apply

\* ================= src/src/index.js: the older apply-naming-changes
\* The older main process numbers the tracks of a rule from the rule's
\* startNumber, lets every rule take every track it matches, and resolves
\* a name that is taken by looking for a free number in the folder.

\* the variable bag of the matchCount-th track that a rule matches
LegacyVariables(rule, file, matchCount) ==
    [number |-> rule.startNumber + matchCount - 1,
     artist |-> OrElse(file.artist, <<"Unknown Artist">>),
     title |-> OrElse(file.title, <<"Unknown Title">>),
     album |-> OrElse(file.album, <<"Unknown Album">>),
     genre |-> OrElse(file.genre, <<"Unknown">>),
     year |-> OrElse(file.year, CurrentYear)]

\* template.trim() === '' for a template: nothing but blanks
IsBlank(template) == \A i \in DOMAIN template : template[i] = Lit(" ")

\* the new filename: the rendered filenameTemplate with .mp3, the original
\* filename when the template or what it renders is blank
LegacyNewFilename(rule, file, variables) ==
    LET processedTemplate == processTemplate(rule.filenameTemplate, variables)
    IN IF ~IsBlank(rule.filenameTemplate) /\ trim(processedTemplate) # <<>>
       THEN processedTemplate \o <<".mp3">>
       ELSE file.filename

\* previewResult.matches.push({...})
LegacyMatch(rule, file, matchCount) ==
    LET variables == LegacyVariables(rule, file, matchCount)
    IN [originalFilename |-> file.filename,
        originalPath |-> file.filePath,
        newFilename |-> LegacyNewFilename(rule, file, variables),
        newArtist |-> OrElse(processTemplate(rule.artistTemplate, variables), file.artist),
        newTitle |-> OrElse(processTemplate(rule.songTemplate, variables), file.title),
        newAlbum |-> OrElse(processTemplate(rule.albumTemplate, variables), file.album),
        originalArtist |-> file.artist,
        originalTitle |-> file.title,
        originalAlbum |-> file.album,
        ruleId |-> rule.id,
        variables |-> variables]

\* for (const file of filesData) of one rule, from file i on, matchCount
\* tracks matched so far
RECURSIVE LegacyRuleMatches(_, _, _, _)
LegacyRuleMatches(rule, filesData, i, matchCount) ==
    IF i > Len(filesData) THEN <<>>
    ELSE IF FoundMatch(filesData[i], ValidSearches(rule))
    THEN <<LegacyMatch(rule, filesData[i], matchCount + 1)>>
            \o LegacyRuleMatches(rule, filesData, i + 1, matchCount + 1)
    ELSE LegacyRuleMatches(rule, filesData, i + 1, matchCount)

\* for (const rule of namingRules), from rule r on; a rule without a valid
\* search phrase is skipped
RECURSIVE LegacyMatchesFrom(_, _, _)
LegacyMatchesFrom(namingRules, filesData, r) ==
    IF r > Len(namingRules) THEN <<>>
    ELSE (IF Len(ValidSearches(namingRules[r])) = 0 THEN <<>>
          ELSE LegacyRuleMatches(namingRules[r], filesData, 1, 0))
            \o LegacyMatchesFrom(namingRules, filesData, r + 1)

LegacyMatches(namingRules, filesData) == LegacyMatchesFrom(namingRules, filesData, 1)

\* the tags written for a match: artist, title and album where the new
\* value differs from the original one of the track record
LegacyTags(fileTags, match) ==
    LET t1 == IF match.newArtist # match.originalArtist
              THEN [fileTags EXCEPT !.artist = match.newArtist] ELSE fileTags
        t2 == IF match.newTitle # match.originalTitle
              THEN [t1 EXCEPT !.title = match.newTitle] ELSE t1
    IN IF match.newAlbum # match.originalAlbum
       THEN [t2 EXCEPT !.album = match.newAlbum] ELSE t2

\* namingRules.find(r => r.id === match.ruleId)
FindRule(namingRules, ruleId) ==
    LET found == {r \in DOMAIN namingRules : namingRules[r].id = ruleId}
    IN namingRules[CHOOSE r \in found : \A q \in found : r <= q]

\* rule.filenameTemplate.includes('{number')
UsesNumbering(rule) ==
    \E i \in DOMAIN rule.filenameTemplate :
        \/ rule.filenameTemplate[i].k = "pad"
        \/ rule.filenameTemplate[i] = Var("number")

\* f.endsWith('.mp3')
endsWithMp3(f) == f # <<>> /\ f[Len(f)] = ".mp3"

\* path.parse(f).name
NameOnly(f) == IF endsWithMp3(f) THEN SubSeq(f, 1, Len(f) - 1) ELSE f

\* fs.readdirSync(dir).filter(f => f.endsWith('.mp3'))
ExistingFiles(d) == {Tail(d[id]) : id \in {j \in DOMAIN d : endsWithMp3(d[j])}}

\* where the regular expression /\d+/ matches in a name: the first digit
\* and the last digit of the first run of digits, 0 when there is no digit
FirstDigit(name) ==
    IF \E i \in DOMAIN name : IsDigit(name[i])
    THEN CHOOSE i \in DOMAIN name :
            IsDigit(name[i]) /\ \A j \in 1..(i - 1) : ~IsDigit(name[j])
    ELSE 0

RunEnd(name, first) ==
    CHOOSE j \in first..Len(name) :
        /\ \A q \in first..j : IsDigit(name[q])
        /\ j = Len(name) \/ ~IsDigit(name[j + 1])

\* fileNameOnly.match(regex)[1] for the pattern ^before(\d+)after$: the
\* digits of the file name between before and after, <<>> when the name
\* does not match
Captured(fileNameOnly, before, after) ==
    LET from == Len(before) + 1
        to == Len(fileNameOnly) - Len(after)
    IN IF /\ from <= to
          /\ SubSeq(fileNameOnly, 1, from - 1) = before
          /\ SubSeq(fileNameOnly, to + 1, Len(fileNameOnly)) = after
          /\ \A q \in from..to : IsDigit(fileNameOnly[q])
       THEN SubSeq(fileNameOnly, from, to)
       ELSE <<>>

\* usedNumbers: the first run of digits of the wanted name is taken for
\* the number, and the numbers of the .mp3 files that differ from the
\* wanted name in that run only are collected
UsedNumbers(d, finalFilename) ==
    LET nameWithoutExt == NameOnly(finalFilename)
        first == FirstDigit(nameWithoutExt)
    IN IF first = 0 THEN {}
       ELSE LET last == RunEnd(nameWithoutExt, first)
                before == SubSeq(nameWithoutExt, 1, first - 1)
                after == SubSeq(nameWithoutExt, last + 1, Len(nameWithoutExt))
            IN {parseInt(Captured(NameOnly(f), before, after)) :
                    f \in {g \in ExistingFiles(d) :
                            Captured(NameOnly(g), before, after) # <<>>}}

\* let nextNumber = rule.startNumber; while (usedNumbers.has(nextNumber)) nextNumber++
RECURSIVE NextNumber(_, _)
NextNumber(usedNumbers, nextNumber) ==
    IF nextNumber \in usedNumbers THEN NextNumber(usedNumbers, nextNumber + 1)
    ELSE nextNumber

\* the filename the conflict resolution settles on
ResolvedFilename(d, rule, match) ==
    LET nextNumber == NextNumber(UsedNumbers(d, match.newFilename), rule.startNumber)
        newVariables == [match.variables EXCEPT !.number = nextNumber]
    IN processTemplate(rule.filenameTemplate, newVariables) \o <<".mp3">>

\* a skipped rename that is not counted as an update
SkipRenameUncounted(st, match, written) ==
    [st EXCEPT !.tags = written,
               !.results = Append(@, Result(match, TRUE, <<>>,
                    <<"Metadata updated but file rename skipped">>,
                    match.originalFilename))]

\* the target exists and the template has no number: the rename is skipped
SkipRename(st, match, written) ==
    [st EXCEPT !.tags = written,
               !.updated = @ + 1,
               !.results = Append(@, Result(match, TRUE, <<>>,
                    <<"Metadata updated but file rename skipped">>,
                    match.originalFilename))]

\* the rename of a match whose new filename differs from the original one
LegacyRename(st, i, namingRules, written) ==
    LET match == st.matches[i]
        id == FileAt(st.disk, match.originalPath)
        dir == Dirname(match.originalPath)
        conflict == existsSync(st.disk, Join(dir, match.newFilename))
        rule == FindRule(namingRules, match.ruleId)
    IN IF conflict /\ ~UsesNumbering(rule)
       THEN SkipRename(st, match, written)
       ELSE LET finalFilename ==
                    IF conflict THEN ResolvedFilename(st.disk, rule, match)
                    ELSE match.newFilename
                newPath == Join(dir, finalFilename)
            IN IF st.fileState[id] = "locked"
               THEN RenameCatch(st, match, written)
               ELSE [st EXCEPT !.tags = written,
                               !.disk = renameSync(@, match.originalPath, newPath),
                               !.matches[i].newFilename = finalFilename,
                               !.updated = @ + 1,
                               !.results = Append(@, Result(match, TRUE, <<>>, <<>>,
                                                            finalFilename))]

\* the body of the for loop over previewResult.matches for match i
LegacyFile(st, i, namingRules) ==
    LET match == st.matches[i] IN
    IF ~existsSync(st.disk, match.originalPath)
    THEN FileNotFound(st, match)
    ELSE
    LET id == FileAt(st.disk, match.originalPath) IN
    IF st.fileState[id] = "unreadable"
    THEN [st EXCEPT !.results =
            Append(@, Result(match, FALSE, <<"Cannot read MP3 metadata">>, <<>>, <<>>))]
    ELSE IF st.fileState[id] = "unwritable"
    THEN [st EXCEPT !.results =
            Append(@, Result(match, FALSE, <<"Cannot write MP3 metadata">>, <<>>, <<>>))]
    ELSE
    LET written == IF st.fileState[id] = "rejected" THEN st.tags
                   ELSE [st.tags EXCEPT ![id] = LegacyTags(st.tags[id], match)] IN
    IF match.newFilename = match.originalFilename
    THEN [st EXCEPT !.tags = written,
                    !.updated = @ + 1,
                    !.results = Append(@, Result(match, TRUE, <<>>, <<>>, match.newFilename))]
    ELSE LegacyRename(st, i, namingRules, written)

\* the loop up to and with match `last`
RECURSIVE LegacyFiles(_, _, _, _)
LegacyFiles(st, fileIndex, last, namingRules) ==
    IF fileIndex > last THEN st
    ELSE LegacyFiles(LegacyFile(st, fileIndex, namingRules), fileIndex + 1,
                     last, namingRules)

LegacyRun(d, t, fs, matches, namingRules) ==
    LegacyFiles([disk |-> d, tags |-> t, fileState |-> fs,
                 matches |-> matches, updated |-> 0, results |-> <<>>],
                1, Len(matches), namingRules)

\* ------------------------- apply-naming-changes of src/src/index.js
ApplyLegacy ==
    /\ runs < MaxRuns
    /\ LET matches == LegacyMatches(rulesList, trackList)
           done == LegacyRun(disk, tags, fileState, matches, rulesList)
       IN /\ applyResult' =
                [called |-> TRUE, args |-> Args, matches |-> matches,
                 updated |-> done.updated, results |-> done.results]
          /\ disk' = done.disk
          /\ tags' = done.tags
    /\ runs' = runs + 1
    /\ UNCHANGED <<rulesList, trackList, fileState, namingState, previewResult,
                   scans, cancelRequest, rendering,
                   cleaning, folderState, scanResult, scraperState, sessions>>

\* -------------------------------------------------------- initial states
\* the file with identity i, as first listed
FileName(i) == <<"f">> \o toString(i) \o <<".mp3">>

TrackRecord(i, trackNumber, album, lyrics) ==
    [filename |-> FileName(i), filePath |-> Join(Dir, FileName(i)),
     genre |-> <<"g", ";", "h">>, title |-> <<"T">>, artist |-> <<"X">>,
     album |-> album, lyrics |-> lyrics,
     trackNumber |-> trackNumber, year |-> <<>>]

TagsOf(track) ==
    [title |-> track.title, artist |-> track.artist, album |-> track.album,
     genre |-> track.genre, lyrics |-> track.lyrics,
     trackNumber |-> track.trackNumber]

Rule(id, lyricSearches, albumTemplate, filenameTemplate, startNumber) ==
    [id |-> id, lyricSearches |-> lyricSearches, lyricSearch |-> <<>>,
     albumTemplate |-> albumTemplate,
     songTemplate |-> <<Var("title")>>,
     artistTemplate |-> <<>>,
     filenameTemplate |-> filenameTemplate,
     startNumber |-> startNumber]

\* "{number:02d} {artist}" and "{artist}"
NumberedName == <<Pad(2), Lit(" "), Var("artist")>>
PlainName == <<Var("artist")>>

\* two rules; every lyric that holds "l" also matches the second rule
RulesWith(albumTemplate, filenameTemplate) ==
    <<Rule(1, << <<"l">> >>, albumTemplate, filenameTemplate, 2),
      Rule(2, << <<" ">>, <<"M">> >>, <<Lit("D")>>, filenameTemplate, 1)>>

StandardRules == RulesWith(<<Lit("C")>>, NumberedName)

RuleVariants ==
    {StandardRules,
     RulesWith(<<Var("album")>>, PlainName),
     RulesWith(<<Var("album"), Lit("!")>>, NumberedName),
     RulesWith(<<>>, NumberedName)}

Recorded(k) == IF k = 0 THEN <<>> ELSE toString(k)

AllOk(n) == [id \in 1..n |-> "ok"]

\* the renderer holds the list `listed`, the folder holds the files onDisk
\* (indexed by identity), st says what the environment allows on each
InitState(rules, listed, onDisk, st) ==
    /\ rulesList = rules
    /\ trackList = listed
    /\ disk = [id \in DOMAIN onDisk |-> onDisk[id].filePath]
    /\ tags = [id \in DOMAIN onDisk |-> TagsOf(onDisk[id])]
    /\ fileState = st
    /\ namingState = [currentWindow |-> "none", isRunning |-> FALSE]
    /\ previewResult = [called |-> FALSE, args |-> <<>>,
                        totalMatches |-> 0, matches |-> <<>>]
    /\ applyResult = [called |-> FALSE, args |-> <<>>, matches |-> <<>>,
                      updated |-> 0, results |-> <<>>]
    /\ runs = 0
    /\ scans = 0

\* no cancel request is made
NoCancel == [requested |-> FALSE, after |-> 0]

\* processTemplate has not been called
\* no genre cleanup made yet
NoCleaning ==
    [called |-> FALSE, remove |-> {}, before |-> <<>>, after |-> <<>>,
     results |-> <<>>]

\* no scan made yet
NoScan == [called |-> FALSE, threw |-> FALSE, results |-> <<>>]

\* let scraperState = { isRunning: false, browser: null, ... }
NoScraper ==
    [isRunning |-> FALSE, browser |-> "null", totalFiles |-> 0,
     processedFiles |-> 0, successfulFiles |-> 0, errorFiles |-> 0,
     skippedFiles |-> 0]

\* no start-scraping or stop-scraping call made yet, and a browser that
\* closes when it is asked to
NoSessions == [closeThrows |-> FALSE, calls |-> <<>>]

\* a folder that can be listed, nothing cleaned, scanned or scraped yet
Quiet ==
    /\ cleaning = NoCleaning
    /\ folderState = "ok"
    /\ scanResult = NoScan
    /\ scraperState = NoScraper
    /\ sessions = NoSessions

NoRendering ==
    [called |-> FALSE, template |-> <<>>, variables |-> [number |-> 1],
     undefined |-> {}, threw |-> FALSE, value |-> <<>>]

\* the program started on a folder, nobody asking to cancel
InitFrom(rules, listed, onDisk, st) ==
    /\ InitState(rules, listed, onDisk, st)
    /\ cancelRequest = NoCancel
    /\ rendering = NoRendering
    /\ Quiet

\* tracks with any recorded numbers, all matched by both rules
InitNumbering ==
    \E n \in 1..MaxTracks :
        \E nums \in [1..n -> 0..MaxRecorded] :
            LET files == [i \in 1..n |->
                            TrackRecord(i, Recorded(nums[i]), <<"A">>, <<"L", "m">>)]
            IN InitFrom(StandardRules, files, files, AllOk(n))

\* tracks of two albums under rules with different templates
InitAlbums ==
    \E n \in 1..MaxTracks :
        \E albums \in [1..n -> {"A", "B"}], rules \in RuleVariants :
            LET files == [i \in 1..n |->
                            TrackRecord(i, <<>>, <<albums[i]>>, <<"L", "m">>)]
            IN InitFrom(rules, files, files, AllOk(n))

\* tracks with different lyrics
Lyrics == {<<>>, <<"L", "m">>, <<"m">>, <<"k">>}

InitLyrics ==
    \E n \in 1..MaxTracks :
        \E lyrics \in [1..n -> Lyrics] :
            LET files == [i \in 1..n |->
                            TrackRecord(i, <<>>, <<"A">>, lyrics[i])]
            IN InitFrom(StandardRules, files, files, AllOk(n))

\* the renderer lists some files of the folder, in any order; the folder
\* may hold one file more than the list
InitListed ==
    \E m \in 1..MaxTracks :
        \E n \in {k \in 1..m : m - 1 <= k} :
            \E order \in [1..n -> 1..m] :
                /\ \A i, j \in 1..n : i # j => order[i] # order[j]
                /\ LET files == [i \in 1..m |->
                                    TrackRecord(i, <<>>, <<"A">>, <<"L", "m">>)]
                   IN InitFrom(StandardRules,
                               [i \in 1..n |-> files[order[i]]],
                               files, AllOk(m))

\* files the environment lets not be read, written or renamed
FaultStates == {"unreadable", "unwritable", "rejected", "locked"}

InitFaulty ==
    \E n \in 1..MaxTracks :
        \E st \in [1..n -> {"ok"} \cup FaultStates] :
            LET files == [i \in 1..n |->
                            TrackRecord(i, <<>>, <<"A">>, <<"L", "m">>)]
            IN InitFrom(StandardRules, files, files, st)

\* the list names a file that has left the folder since it was listed
InitStale ==
    \E n \in 2..MaxTracks :
        \E gone \in 1..n, st \in [1..n -> {"ok"} \cup FaultStates] :
            LET files == [i \in 1..n |->
                            TrackRecord(i, <<>>, <<"A">>, <<"L", "m">>)]
            IN InitFrom(StandardRules, files,
                        [i \in (1..n) \ {gone} |-> files[i]],
                        [i \in (1..n) \ {gone} |-> st[i]])

\* the user asks to cancel while the batch is running, after some of the
\* matched tracks have been handled and before the last one is
InitCancel ==
    \E n \in 1..MaxTracks :
        \E after \in 0..(n - 1) :
            LET files == [i \in 1..n |->
                            TrackRecord(i, <<>>, <<"A">>, <<"L", "m">>)]
            IN /\ InitState(StandardRules, files, files, AllOk(n))
               /\ cancelRequest = [requested |-> TRUE, after |-> after]
               /\ rendering = NoRendering
               /\ Quiet

\* "{artist} {number}"
ArtistFirst == <<Var("artist"), Lit(" "), Var("number")>>

LegacyTemplates == {NumberedName, PlainName, ArtistFirst}

Artists == {<<"X">>, <<"2", "P">>}

\* one rule with the given filenameTemplate and startNumber, or two of them
LegacyRules(filenameTemplate, startNumber, both) ==
    LET first == Rule(1, << <<"l">> >>, <<Lit("C")>>, filenameTemplate, startNumber)
        second == Rule(2, << <<"M">> >>, <<Lit("D")>>, filenameTemplate, 1)
    IN IF both THEN <<first, second>> ELSE <<first>>

\* a file that bears the name the template renders for number k
Occupant(filenameTemplate, artist, k) ==
    LET name == processTemplate(filenameTemplate,
                    [number |-> k, artist |-> artist, title |-> <<"T">>,
                     album |-> <<"A">>, genre |-> <<"g">>, year |-> CurrentYear])
                    \o <<".mp3">>
    IN [TrackRecord(1, <<>>, <<"A">>, <<>>) EXCEPT
            !.filename = name, !.filePath = Join(Dir, name), !.artist = artist]

\* the folder of the older apply-naming-changes: the listed tracks of one
\* artist, and files left by earlier runs that bear names the rule's
\* template renders
InitLegacy ==
    \E n \in 1..MaxListed, filenameTemplate \in LegacyTemplates,
       startNumber \in 1..MaxStart, both \in BOOLEAN, artist \in Artists,
       occupied \in SUBSET (1..MaxOccupied),
       state \in {"ok", "rejected", "locked"} :
        LET files == [i \in 1..n |->
                        [TrackRecord(i, <<>>, <<"A">>, <<"L", "m">>)
                            EXCEPT !.artist = artist]]
            left(k) == Occupant(filenameTemplate, artist, k)
            firsts == {k \in occupied :
                        \A j \in occupied : j < k => left(j).filename # left(k).filename}
            onDisk == [id \in (1..n) \cup {n + k : k \in firsts} |->
                        IF id <= n THEN files[id] ELSE left(id - n)]
        IN InitFrom(LegacyRules(filenameTemplate, startNumber, both), files, onDisk,
                    [id \in DOMAIN onDisk |-> IF id <= n THEN state ELSE "ok"])

Init ==
    \/ InitNumbering \/ InitAlbums \/ InitLyrics
    \/ InitListed \/ InitFaulty \/ InitStale \/ InitCancel

Spec == Init /\ [][Next]_vars

\* the two handlers called on a track list that is not refreshed
NextHandlers == Preview \/ Apply

SpecHandlers == Init /\ [][NextHandlers]_vars

\* the handlers called on tracks that differ in their recorded numbers only
SpecNumbering == InitNumbering /\ [][NextHandlers]_vars

\* the older apply-naming-changes called on a folder that holds files of
\* earlier runs
NextLegacy == ApplyLegacy

SpecLegacy == InitLegacy /\ [][NextLegacy]_vars

\* ------------------------------------------------------ processTemplate
\* "{number:03d} - {artist}"
PaddedName == <<Pad(3), Lit(" "), Lit("-"), Lit(" "), Var("artist")>>

Tokens ==
    {Lit("-"), Var("number"), Var("artist"), Var("genre")}
        \cup {Pad(w) : w \in 1..MaxWidth}

\* the templates of at most MaxTemplate tokens, the empty one among them
Templates ==
    {PaddedName} \cup UNION {[1..n -> Tokens] : n \in 0..MaxTemplate}

\* numbers of one to four digits
Numbers == {0, 7, 12, 345, 1234}

\* the bags: number and artist have a value, are undefined, or are missing
Bags ==
    LET rest == [genre |-> <<"g", ";", "h">>]
        WithNumber(n) == [key \in {"number", "genre"} |->
                            IF key = "number" THEN n ELSE rest.genre]
        numbered == {WithNumber(n) : n \in Numbers} \cup {rest}
        WithArtist(bag, a) == [key \in DOMAIN bag \cup {"artist"} |->
                                IF key = "artist" THEN a ELSE bag[key]]
        values == numbered \cup {WithArtist(bag, a) :
                                    bag \in numbered, a \in {<<>>, <<"X">>}}
        Undefined(v) == {k \in SUBSET {"number", "artist"} : k \cap DOMAIN v = {}}
    IN UNION {{[variables |-> v, undefined |-> u] : u \in Undefined(v)} :
                v \in values}

\* a call of processTemplate about to be made
InitTemplate ==
    \E template \in Templates, bag \in Bags :
        /\ InitState(StandardRules, <<>>, <<>>, <<>>)
        /\ cancelRequest = NoCancel
        /\ Quiet
        /\ rendering = [called |-> FALSE, template |-> template,
                        variables |-> bag.variables, undefined |-> bag.undefined,
                        threw |-> FALSE, value |-> <<>>]

\* the call is made: it returns a text or raises an error
RenderTemplate ==
    /\ ~rendering.called
    /\ LET outcome == Render(rendering.template, rendering.variables,
                             rendering.undefined)
       IN rendering' = [rendering EXCEPT !.called = TRUE,
                                         !.threw = outcome.threw,
                                         !.value = outcome.value]
    /\ UNCHANGED <<rulesList, trackList, disk, tags, fileState, namingState,
                   previewResult, applyResult, runs, scans, cancelRequest,
                   cleaning, folderState, scanResult, scraperState, sessions>>

NextTemplate == RenderTemplate

SpecTemplate == InitTemplate /\ [][NextTemplate]_vars

\* ------------------------------------------- rules and their phrases
\* lists of search phrases: none, blank ones, and phrases in either case
PhraseLists ==
    {<<>>, << <<>> >>, << <<" ">> >>, << <<"l">> >>,
     << <<" ">>, <<"M">> >>, << <<"k">>, <<"L", "m">> >>}

\* tracks with any lyrics under two rules with any phrase lists
InitPhrases ==
    \E n \in 1..MaxListed :
        \E lyrics \in [1..n -> Lyrics], first \in PhraseLists,
           second \in PhraseLists :
            LET files == [i \in 1..n |->
                            TrackRecord(i, <<>>, <<"A">>, lyrics[i])]
                rules == <<Rule(1, first, <<Lit("C")>>, NumberedName, 1),
                           Rule(2, second, <<Lit("D")>>, NumberedName, 1)>>
            IN InitFrom(rules, files, files, AllOk(n))

\* the handlers called with rules that differ in their phrases
SpecPhrases == InitPhrases /\ [][NextHandlers]_vars

\* --------------------------------------------- rules of either shape
\* a rule as an old rule file holds it (one lyricSearch string), as a new
\* one holds it (a lyricSearches list), or with both fields
Shaped(id, lyricSearch, lyricSearches) ==
    [Rule(id, lyricSearches, <<Lit("C")>>, NumberedName, 1)
        EXCEPT !.lyricSearch = lyricSearch]

LegacyPhrases == {<<>>, <<" ">>, <<"l">>, <<"M">>}

ShortLists == {<<>>, << <<" ">> >>, << <<"k">> >>, << <<"l">> >>}

InitShapes ==
    \E n \in 1..MaxListed :
        \E lyrics \in [1..n -> Lyrics], lyricSearch \in LegacyPhrases,
           lyricSearches \in ShortLists, other \in {<<>>, <<"m">>} :
            LET files == [i \in 1..n |->
                            TrackRecord(i, <<>>, <<"A">>, lyrics[i])]
                rules == <<Shaped(1, lyricSearch, lyricSearches),
                           Shaped(2, other, <<>>)>>
            IN InitFrom(rules, files, files, AllOk(n))

\* the handlers called with rules of either shape
SpecShapes == InitShapes /\ [][NextHandlers]_vars

\* --------------------------------------------------------- genre cleanup
\* A genre tag is a text of genre names separated by the delimiter; a name
\* is one atom of the text, and its length is the length of its string.
Delimiter == ";"

\* genre.split(';'), the empty pieces dropped
SplitGenres(text) == SelectSeq(text, LAMBDA a : a # Delimiter)

\* list.join(';')
RECURSIVE JoinGenres(_)
JoinGenres(list) ==
    IF Len(list) <= 1 THEN list
    ELSE <<Head(list), Delimiter>> \o JoinGenres(Tail(list))

\* the set difference, the genres that stay in the order they had
DifferenceKeepingAll(current, remove) == current

Difference(current, remove) == SelectSeq(current, LAMBDA g : g \notin remove)

\* a track of one or two genres keeps them when all are selected
KeepNone(current) == <<>>

KeepOriginal(current) == current

\* the two shortest genres of a list of three or more, the shorter first:
\* which of two genres of the same length is taken, and which of them
\* comes first, is not laid down
TwoLongest(current) ==
    {<<current[p[1]], current[p[2]]>> :
        p \in {q \in (DOMAIN current) \X (DOMAIN current) :
                /\ q[1] # q[2]
                /\ Len(current[q[1]]) >= Len(current[q[2]])
                /\ \A k \in DOMAIN current \ {q[1], q[2]} :
                        Len(current[k]) <= Len(current[q[2]])}}

TwoShortest(current) ==
    {<<current[p[1]], current[p[2]]>> :
        p \in {q \in (DOMAIN current) \X (DOMAIN current) :
                /\ q[1] # q[2]
                /\ Len(current[q[1]]) <= Len(current[q[2]])
                /\ \A k \in DOMAIN current \ {q[1], q[2]} :
                        Len(current[k]) >= Len(current[q[2]])}}

\* cleanGenre(currentGenreList, genresToRemove): the lists it may return
cleanGenre(current, remove) ==
    LET difference == Difference(current, remove)
    IN IF difference # <<>> THEN {difference}
       ELSE IF Len(current) <= 2 THEN {KeepOriginal(current)}
       ELSE TwoShortest(current)

\* the cleaned lists of the listed tracks, one choice for each track
CleanedLists(before, remove) ==
    {after \in [DOMAIN before -> UNION {cleanGenre(before[i], remove) :
                                            i \in DOMAIN before}] :
        \A i \in DOMAIN before : after[i] \in cleanGenre(before[i], remove)}

\* update-mp3-genres, one update: the tags are read, the genre is set to
\* the text it is given and the tags are written back; an error of the
\* read or of the write is caught and reported for the file alone
WriteEmptyGenre(t, id, newGenre) == [t EXCEPT ![id].genre = <<>>]

WriteGenre(t, id, newGenre) == [t EXCEPT ![id].genre = newGenre]

UpdateGenre(st, update) ==
    IF ~existsSync(st.disk, update.filePath)
    THEN [st EXCEPT !.results =
            Append(@, [filename |-> update.filename, success |-> FALSE,
                       error |-> <<"Cannot read MP3 metadata">>])]
    ELSE
    LET id == FileAt(st.disk, update.filePath) IN
    IF st.fileState[id] = "unreadable"
    THEN [st EXCEPT !.results =
            Append(@, [filename |-> update.filename, success |-> FALSE,
                       error |-> <<"Cannot read MP3 metadata">>])]
    ELSE IF st.fileState[id] = "unwritable"
    THEN [st EXCEPT !.results =
            Append(@, [filename |-> update.filename, success |-> FALSE,
                       error |-> <<"Cannot write MP3 metadata">>])]
    ELSE IF st.fileState[id] = "rejected"
    THEN [st EXCEPT !.results =
            Append(@, [filename |-> update.filename, success |-> FALSE,
                       newGenre |-> update.newGenre])]
    ELSE [st EXCEPT !.tags = WriteGenre(@, id, update.newGenre),
                    !.results =
            Append(@, [filename |-> update.filename, success |-> TRUE,
                       newGenre |-> update.newGenre])]

\* update-mp3-genres: the loop over the updates
RECURSIVE UpdateGenres(_, _, _)
UpdateGenres(st, updates, i) ==
    IF i > Len(updates) THEN st
    ELSE UpdateGenres(UpdateGenre(st, updates[i]), updates, i + 1)

\* the genres of the listed tracks, which the user selects from
GenresOf(files) ==
    UNION {Range(SplitGenres(files[i].genre)) : i \in DOMAIN files}

\* a cleanup: the user selects genres to remove, every listed track gets
\* its cleaned list, update-mp3-genres writes the new genre texts, and the
\* tracks whose file was written show their new genre
CleanGenres ==
    /\ ~cleaning.called
    /\ trackList # <<>>
    /\ \E remove \in SUBSET GenresOf(trackList) :
        LET before == [i \in DOMAIN trackList |->
                            SplitGenres(trackList[i].genre)]
        IN \E after \in CleanedLists(before, remove) :
            LET updates == [i \in DOMAIN trackList |->
                                [filename |-> trackList[i].filename,
                                 filePath |-> trackList[i].filePath,
                                 newGenre |-> JoinGenres(after[i])]]
                st == UpdateGenres([disk |-> disk, tags |-> tags,
                                    fileState |-> fileState,
                                    results |-> <<>>], updates, 1)
            IN /\ cleaning' = [called |-> TRUE, remove |-> remove,
                               before |-> before, after |-> after,
                               results |-> st.results]
               /\ tags' = st.tags
               /\ trackList' = [i \in DOMAIN trackList |->
                                    IF st.results[i].success
                                    THEN [trackList[i] EXCEPT
                                            !.genre = updates[i].newGenre]
                                    ELSE trackList[i]]
    /\ UNCHANGED <<rulesList, disk, fileState, namingState, previewResult,
                   applyResult, runs, scans, cancelRequest, rendering,
                   folderState, scanResult, scraperState, sessions>>

\* the genre names of the examples
GenreNames == {"rap", "emd", "dark", "blues"}

ExampleLists ==
    {<<"rap">>, <<"jazz", "blues">>,
     <<"electronic", "dark", "atmospheric", "emd", "glitch">>,
     <<"rap", "hip-hop", "dark", "bass", "emd">>}

\* the lists of n genres, all different
Distinct(names, n) ==
    {list \in [1..n -> names] :
        \A i, j \in 1..n : i # j => list[i] # list[j]}

GenreLists ==
    ExampleLists \cup UNION {Distinct(GenreNames, n) : n \in 1..MaxGenres}

OtherLists == {<<"rap">>, <<"dark", "emd", "blues">>}

WithGenres(track, list) == [track EXCEPT !.genre = JoinGenres(list)]

\* a scanned folder: the first track with any genres, files that cannot be
\* read or written among them
InitGenres ==
    \E n \in 1..MaxListed :
        \E first \in GenreLists, others \in [2..n -> OtherLists],
           state \in {"ok", "unreadable", "unwritable", "rejected"} :
            LET files == [i \in 1..n |->
                            WithGenres(TrackRecord(i, <<>>, <<"A">>, <<>>),
                                       IF i = 1 THEN first ELSE others[i])]
            IN InitFrom(StandardRules, files, files,
                        [AllOk(n) EXCEPT ![1] = state])

NextGenres == CleanGenres

\* the genre cleanup of a scanned folder
SpecGenres == InitGenres /\ [][NextGenres]_vars

\* ------------------------------------------------------ scan of a folder
\* a file of the folder with any extension
FolderFile(i, extension, genre) ==
    LET name == <<"f">> \o toString(i) \o <<extension>>
    IN [TrackRecord(i, <<>>, <<"A">>, <<>>) EXCEPT
            !.filename = name, !.filePath = Join(Dir, name), !.genre = genre]

\* a folder before its first scan: files of any extension, some of them
\* unreadable, the first one with or without a genre; the folder itself
\* may be impossible to list
InitScan ==
    \E n \in 1..MaxTracks :
        \E extension \in [1..n -> Extensions],
           st \in [1..n -> {"ok", "unreadable"}],
           genre \in {<<>>, <<"g">>},
           listing \in {"ok", "unlistable"} :
            LET files == [i \in 1..n |->
                            FolderFile(i, extension[i],
                                       IF i = 1 THEN genre ELSE <<"h">>)]
            IN /\ InitState(StandardRules, <<>>, files, st)
               /\ cancelRequest = NoCancel
               /\ rendering = NoRendering
               /\ cleaning = NoCleaning
               /\ folderState = listing
               /\ scanResult = NoScan
               /\ scraperState = NoScraper
               /\ sessions = NoSessions

NextScan == Scan

\* the scan of a folder
SpecScan == InitScan /\ [][NextScan]_vars

\* -------------------------------------------------------------- scraper
\* A call of start-scraping or stop-scraping runs until its next await and
\* goes on when what it awaits has settled; between two awaits of a call
\* any other call may run. A start-scraping call stands at "launching"
\* (puppeteer.launch), "restart-closing" and "restart-launching" (the
\* restart of the browser), "scraping" (scrapeSunoUrl), "delaying" (the
\* pause between two files), "closing" (browser.close after the loop),
\* "recovering" (browser.close in the catch block), or it has "returned",
\* or its promise was "rejected". It also records how many files it began
\* and handled, and whether stop-scraping was handled while it was pending.
RestartEvery == 100

Pending(call) == call.pc \notin {"returned", "rejected"}

\* hasGenreAndLyrics(filePath)
hasGenreAndLyrics(t) == trim(t.genre) # <<>> /\ trim(t.lyrics) # <<>>

\* getSunoUrl(filePath): tags.audioSourceUrl || null, null being no text
getSunoUrl(t) ==
    IF "audioSourceUrl" \in DOMAIN t THEN t.audioSourceUrl ELSE <<>>

\* the stats start-scraping returns
Stats(ss) ==
    [total |-> ss.totalFiles, processed |-> ss.processedFiles,
     successful |-> ss.successfulFiles, errors |-> ss.errorFiles,
     skipped |-> ss.skippedFiles]

\* after the browser is closed: isRunning = false, return the stats
Finish(m) ==
    [m EXCEPT !.ss.isRunning = FALSE,
              !.call.pc = "returned",
              !.call.result = [success |-> TRUE, stats |-> Stats(m.ss)]]

\* after the loop: close the browser if there is one
AfterLoop(m) ==
    IF m.ss.browser # "null" THEN [m EXCEPT !.call.pc = "closing"]
    ELSE Finish(m)

\* the catch block of start-scraping
Failed(m) ==
    IF m.ss.browser # "null"
    THEN [m EXCEPT !.ss.isRunning = FALSE, !.call.pc = "recovering"]
    ELSE [m EXCEPT !.ss.isRunning = FALSE,
                   !.call.pc = "returned",
                   !.call.result = [success |-> FALSE,
                                    error |-> <<"Scraping failed">>]]

\* the loop over the files, from its test to the next await or to the return
RECURSIVE Loop(_)
RECURSIVE Process(_)
RECURSIVE Delay(_)

\* what follows the scraping of a file: it is counted as processed, and
\* the loop pauses unless the file was the last one or the session stopped
Delay(m) ==
    LET counted == [m EXCEPT !.ss.processedFiles = @ + 1,
                             !.call.handled = @ + 1]
    IN IF m.call.i < Len(m.call.mp3Files) - 1 /\ m.ss.isRunning
       THEN [counted EXCEPT !.call.pc = "delaying"]
       ELSE Loop([counted EXCEPT !.call.i = @ + 1])

\* one file of the loop, after the restart of the browser if there was one
Process(m) ==
    LET t == m.tags[m.call.mp3Files[m.call.i + 1]]
    IN IF hasGenreAndLyrics(t)
       THEN Loop([m EXCEPT !.ss.skippedFiles = @ + 1,
                           !.ss.processedFiles = @ + 1,
                           !.call.handled = @ + 1,
                           !.call.i = @ + 1])
       ELSE IF includes(getSunoUrl(t), <<"suno.com">>)
       THEN [m EXCEPT !.call.pc = "scraping"]
       ELSE Delay([m EXCEPT !.ss.skippedFiles = @ + 1])

\* for (let i = 0; i < mp3Files.length && scraperState.isRunning; i++)
Loop(m) ==
    IF ~(m.call.i < Len(m.call.mp3Files) /\ m.ss.isRunning) THEN AfterLoop(m)
    ELSE LET begun == [m EXCEPT !.call.begun = @ + 1]
         IN IF m.call.i > 0 /\ m.call.i % RestartEvery = 0
            THEN [begun EXCEPT !.call.pc = "restart-closing"]
            ELSE Process(begun)

\* the tags of a file that scrapeSunoUrl has updated
Scraped(t) == [t EXCEPT !.genre = <<"g">>, !.lyrics = <<"L">>]

\* a start-scraping call goes on after its await: the outcomes
ResumeStart(m, closeThrows) ==
    CASE m.call.pc = "launching" ->
            {Loop([m EXCEPT !.ss.browser = "open"])}
      [] m.call.pc = "restart-closing" ->
            {IF closeThrows THEN Failed(m)
             ELSE [m EXCEPT !.call.pc = "restart-launching"]}
      [] m.call.pc = "restart-launching" ->
            {Process([m EXCEPT !.ss.browser = "open"])}
      [] m.call.pc = "scraping" ->
            {Delay([m EXCEPT !.ss.successfulFiles = @ + 1,
                             !.tags[m.call.mp3Files[m.call.i + 1]] = Scraped(@)]),
             Delay([m EXCEPT !.ss.errorFiles = @ + 1])}
      [] m.call.pc = "delaying" ->
            {Loop([m EXCEPT !.call.i = @ + 1])}
      [] m.call.pc = "closing" ->
            {IF closeThrows THEN Failed(m)
             ELSE Finish([m EXCEPT !.ss.browser = "null"])}
      [] m.call.pc = "recovering" ->
            {IF closeThrows THEN [m EXCEPT !.call.pc = "rejected"]
             ELSE [m EXCEPT !.ss.browser = "null",
                            !.call.pc = "returned",
                            !.call.result = [success |-> FALSE,
                                             error |-> <<"Scraping failed">>]]}

\* a stop-scraping call goes on after browser.close(): the reference is
\* cleared unless the close threw
ResumeStop(m, closeThrows) ==
    {[m EXCEPT !.ss.browser = IF closeThrows THEN @ ELSE "null",
               !.call.pc = "returned",
               !.call.result = [success |-> TRUE]]}

\* the .mp3 files readdirSync lists, by their identities
RECURSIVE Mp3From(_, _, _)
Mp3From(d, id, last) ==
    IF id > last THEN <<>>
    ELSE (IF id \in DOMAIN d /\ endsWithMp3(toLowerCase(d[id]))
          THEN <<id>> ELSE <<>>) \o Mp3From(d, id + 1, last)

StartedCalls ==
    {k \in DOMAIN sessions.calls :
        sessions.calls[k].handler = "start-scraping"}

StopCalls ==
    {k \in DOMAIN sessions.calls :
        sessions.calls[k].handler = "stop-scraping"}

NewCall(pc, mp3Files) ==
    [handler |-> "start-scraping", pc |-> pc, mp3Files |-> mp3Files, i |-> 0,
     begun |-> 0, handled |-> 0, stopped |-> FALSE, result |-> <<>>]

\* start-scraping, to its first await
StartScraping ==
    /\ Cardinality(StartedCalls) < MaxSessions
    /\ IF scraperState.isRunning
       THEN /\ sessions' = [sessions EXCEPT !.calls =
                    Append(@, [NewCall("returned", <<>>) EXCEPT !.result =
                        [success |-> FALSE,
                         error |-> <<"Scraping is already running">>]])]
            /\ UNCHANGED scraperState
       ELSE IF folderState = "unlistable"
       THEN LET m == Failed([ss |-> scraperState, tags |-> tags,
                             call |-> NewCall("launching", <<>>)])
            IN /\ sessions' = [sessions EXCEPT !.calls = Append(@, m.call)]
               /\ scraperState' = m.ss
       ELSE LET mp3Files == Mp3From(disk, 1, MaxTracks)
            IN /\ sessions' = [sessions EXCEPT !.calls =
                        Append(@, NewCall("launching", mp3Files))]
               /\ scraperState' = [scraperState EXCEPT
                        !.totalFiles = Len(mp3Files),
                        !.processedFiles = 0, !.successfulFiles = 0,
                        !.errorFiles = 0, !.skippedFiles = 0,
                        !.isRunning = TRUE]
    /\ UNCHANGED <<rulesList, trackList, disk, tags, fileState, namingState,
                   previewResult, applyResult, runs, scans, cancelRequest,
                   rendering, cleaning, folderState, scanResult>>

\* what a call awaits has settled and the call runs to its next await
Resume(k) ==
    /\ k \in DOMAIN sessions.calls
    /\ Pending(sessions.calls[k])
    /\ LET m == [ss |-> scraperState, tags |-> tags,
                 call |-> sessions.calls[k]]
       IN \E next \in IF m.call.handler = "start-scraping"
                      THEN ResumeStart(m, sessions.closeThrows)
                      ELSE ResumeStop(m, sessions.closeThrows) :
            /\ scraperState' = next.ss
            /\ tags' = next.tags
            /\ sessions' = [sessions EXCEPT !.calls[k] = next.call]
    /\ UNCHANGED <<rulesList, trackList, disk, fileState, namingState,
                   previewResult, applyResult, runs, scans, cancelRequest,
                   rendering, cleaning, folderState, scanResult>>

\* stop-scraping, to its await: isRunning is cleared at once, the browser
\* is closed if there is one
StopScraping ==
    /\ Cardinality(StopCalls) < MaxStops
    /\ scraperState' = [scraperState EXCEPT !.isRunning = FALSE]
    /\ LET noted == [k \in DOMAIN sessions.calls |->
                        IF /\ sessions.calls[k].handler = "start-scraping"
                           /\ Pending(sessions.calls[k])
                        THEN [sessions.calls[k] EXCEPT !.stopped = TRUE]
                        ELSE sessions.calls[k]]
           call == [handler |-> "stop-scraping",
                    pc |-> IF scraperState.browser # "null"
                           THEN "closing" ELSE "returned",
                    result |-> IF scraperState.browser # "null"
                               THEN <<>> ELSE [success |-> TRUE]]
       IN sessions' = [sessions EXCEPT !.calls = Append(noted, call)]
    /\ UNCHANGED <<rulesList, trackList, disk, tags, fileState, namingState,
                   previewResult, applyResult, runs, scans, cancelRequest,
                   rendering, cleaning, folderState, scanResult>>

\* the tags of a file that has its genre and lyrics, of one that names its
\* page on suno.com, and of one that does neither
ScrapeKinds == {"complete", "suno", "plain"}

ScrapeTags(track, kind) ==
    [title |-> track.title, artist |-> track.artist, album |-> track.album,
     trackNumber |-> track.trackNumber,
     genre |-> IF kind = "complete" THEN <<"g">> ELSE <<>>,
     lyrics |-> IF kind = "complete" THEN <<"L">> ELSE <<>>,
     audioSourceUrl |-> IF kind = "suno" THEN <<"suno.com">> ELSE <<>>]

\* a folder of files of any kind, nothing scraped yet
InitScraping ==
    \E n \in 1..MaxListed :
        \E kind \in [1..n -> ScrapeKinds], throws \in BOOLEAN,
           listing \in {"ok", "unlistable"} :
            LET files == [i \in 1..n |-> TrackRecord(i, <<>>, <<"A">>, <<>>)]
            IN /\ rulesList = StandardRules
               /\ trackList = <<>>
               /\ disk = [id \in 1..n |-> files[id].filePath]
               /\ tags = [id \in 1..n |-> ScrapeTags(files[id], kind[id])]
               /\ fileState = AllOk(n)
               /\ namingState = [currentWindow |-> "none", isRunning |-> FALSE]
               /\ previewResult = [called |-> FALSE, args |-> <<>>,
                                   totalMatches |-> 0, matches |-> <<>>]
               /\ applyResult = [called |-> FALSE, args |-> <<>>,
                                 matches |-> <<>>, updated |-> 0,
                                 results |-> <<>>]
               /\ runs = 0
               /\ scans = 0
               /\ cancelRequest = NoCancel
               /\ rendering = NoRendering
               /\ cleaning = NoCleaning
               /\ folderState = listing
               /\ scanResult = NoScan
               /\ scraperState = NoScraper
               /\ sessions = [closeThrows |-> throws, calls |-> <<>>]

NextScraping ==
    \/ StartScraping
    \/ StopScraping
    \/ \E k \in 1..(MaxSessions + MaxStops) : Resume(k)

\* the scraper and the calls of its two handlers
SpecScraping == InitScraping /\ [][NextScraping]_vars

\* what a call awaits settles: no call waits for ever
SpecScrapingFair ==
    SpecScraping /\ \A k \in 1..(MaxSessions + MaxStops) : WF_vars(Resume(k))

\* ------------------------------------------------- files exchanging names
\* the file name the standard rules render for a number
TargetName(k) ==
    processTemplate(NumberedName, [number |-> k, artist |-> <<"X">>])
        \o <<".mp3">>

\* a track stored under a name of its own or under a name the rules render
StoredAs(i, name, trackNumber, lyrics) ==
    [TrackRecord(i, trackNumber, <<"A">>, lyrics) EXCEPT
        !.filename = name, !.filePath = Join(Dir, name)]

\* names a file that no rule matches may hold: none, a rendered name, or
\* one with Temp_ in front
Strangers == {<<>>, TargetName(1), <<"Temp_">> \o TargetName(1)}

\* a folder whose files bear names the rules render, with any recorded
\* numbers: a run may have to move a file to a name another file holds
InitExchange ==
    \E n \in 1..MaxListed :
        \E names \in [1..n -> {<<>>} \cup {TargetName(k) : k \in 1..n}],
           nums \in [1..n -> 0..MaxRecorded], stranger \in Strangers :
            /\ \A i, j \in 1..n :
                    (i # j /\ names[i] # <<>>) => names[i] # names[j]
            /\ \A i \in 1..n : names[i] # stranger
            /\ LET files == [i \in 1..n |->
                                StoredAs(i, OrElse(names[i], FileName(i)),
                                         Recorded(nums[i]), <<"L", "m">>)]
                   onDisk == IF stranger = <<>> THEN files
                             ELSE Append(files,
                                    StoredAs(n + 1, stranger, <<>>, <<"k">>))
               IN InitFrom(StandardRules, onDisk, onDisk, AllOk(Len(onDisk)))

\* the handlers called on such a folder
SpecExchange == InitExchange /\ [][NextHandlers]_vars

\* ================================================================ claims
\* What the claims are stated over: the entries a handler collects for the
\* arguments of a call, the records it returned for them, and the number
\* an entry ends with (the last one written to its variable bag).
EntriesOf(handler, result) ==
    CollectMatches(handler, result.args.namingRules, result.args.filesData)

RecordsOf(matches, originalPath) ==
    {i \in DOMAIN matches : matches[i].originalPath = originalPath}

NumberOf(matches, entry) == LastNumber(matches, entry.file.filePath)

\* entry i is the first of its group to record its (positive) number
Usable(entries, i) ==
    /\ TrackNum(entries[i]) > 0
    /\ \A j \in 1..(i - 1) :
          entries[j].targetAlbum = entries[i].targetAlbum
              => TrackNum(entries[j]) # TrackNum(entries[i])

GroupOf(entries, i) ==
    {j \in DOMAIN entries : entries[j].targetAlbum = entries[i].targetAlbum}

\* the numbers recorded by a usable entry of the group of entry i
RecordedIn(entries, i) ==
    {TrackNum(entries[j]) : j \in {g \in GroupOf(entries, i) : Usable(entries, g)}}

Max(S) == IF S = {} THEN 0 ELSE CHOOSE m \in S : \A x \in S : x <= m

\* ---- C1: a track that rule 1 and rule 2 both match has exactly one match
\* record in the output of a pass, and rule 1 owns it.
C1For(result) ==
    result.called /\ Len(result.args.namingRules) >= 2 =>
        LET rules == result.args.namingRules
            files == result.args.filesData
        IN \A f \in DOMAIN files :
              (/\ FoundMatch(files[f], ValidSearches(rules[1]))
               /\ FoundMatch(files[f], ValidSearches(rules[2])))
              => /\ Cardinality(RecordsOf(result.matches, files[f].filePath)) = 1
                 /\ \A i \in RecordsOf(result.matches, files[f].filePath) :
                       result.matches[i].ruleId = rules[1].id

C1_FirstRuleOwnsTrack == C1For(previewResult) /\ C1For(applyResult)

\* ---- C2: the match records apply computes before it touches a file are
\* the records preview returns for the same rule list and track list.
C2_ApplyMatchesEqualPreview ==
    (previewResult.called /\ applyResult.called
        /\ previewResult.args = applyResult.args)
    => applyResult.matches = previewResult.matches

\* ---- C3: apply destroys no file: every file of the folder before a step
\* is still in the folder after it.
C3_NoFileDestroyed ==
    [][\A id \in DOMAIN disk : id \in DOMAIN disk']_vars

\* ---- C4: in every numbering group, of preview and of apply, each entry
\* has exactly one match record, and no two entries end with the same number.
C4For(handler, result) ==
    result.called =>
        LET entries == EntriesOf(handler, result) IN
        /\ \A i \in DOMAIN entries :
              Cardinality(RecordsOf(result.matches, entries[i].file.filePath)) = 1
        /\ \A i \in DOMAIN entries : \A j \in GroupOf(entries, i) :
              i # j => NumberOf(result.matches, entries[i])
                          # NumberOf(result.matches, entries[j])

C4_OneRecordAndNumberPerEntry ==
    C4For("preview", previewResult) /\ C4For("apply", applyResult)

\* ---- C5 as claimed: the first entry of a group to record a positive
\* number k is assigned k, whatever the other entries record.
C5OriginalFor(handler, result) ==
    result.called =>
        LET entries == EntriesOf(handler, result) IN
        \A i \in DOMAIN entries :
            Usable(entries, i)
                => NumberOf(result.matches, entries[i]) = TrackNum(entries[i])

GapsBelow(entries, i) ==
    {n \in 1..(TrackNum(entries[i]) - 1) : n \notin RecordedIn(entries, i)}

Unnumbered(entries, i) ==
    {j \in GroupOf(entries, i) : ~Usable(entries, j)}

C5AmendedFor(handler, result) ==
    result.called =>
        LET entries == EntriesOf(handler, result) IN
        \A i \in DOMAIN entries :
            (/\ Usable(entries, i)
             /\ Cardinality(GapsBelow(entries, i))
                    <= Cardinality(Unnumbered(entries, i)))
            => /\ \A r \in RecordsOf(result.matches, entries[i].file.filePath) :
                     result.matches[r].variables.number = TrackNum(entries[i])
               /\ Cardinality(RecordsOf(result.matches, entries[i].file.filePath)) = 1
               /\ \A j \in GroupOf(entries, i) :
                     (j # i /\ TrackNum(entries[j]) = TrackNum(entries[i]))
                        => NumberOf(result.matches, entries[j]) # TrackNum(entries[i])

C5WitnessFor(handler, result) ==
    /\ result.called
    /\ LET entries == EntriesOf(handler, result) IN
       \E i \in DOMAIN entries :
          /\ Usable(entries, i)
          /\ GapsBelow(entries, i) # {}
          /\ Cardinality(GapsBelow(entries, i))
                <= Cardinality(Unnumbered(entries, i))
          /\ \E j \in GroupOf(entries, i) :
                j # i /\ TrackNum(entries[j]) = TrackNum(entries[i])
          /\ NumberOf(result.matches, entries[i]) = TrackNum(entries[i])

C6For(handler, result) ==
    result.called =>
        LET entries == EntriesOf(handler, result) IN
        \A i \in DOMAIN entries :
            ~Usable(entries, i) =>
                LET floor == Max({1 + Max(RecordedIn(entries, i)),
                                  entries[i].rule.startNumber})
                    number == NumberOf(result.matches, entries[i])
                IN /\ number >= floor
                   /\ \A n \in floor..(number - 1) :
                         \E j \in GroupOf(entries, i) :
                            j # i /\ NumberOf(result.matches, entries[j]) = n

C6_NewNumbersAboveHighestAndStart ==
    C6For("preview", previewResult) /\ C6For("apply", applyResult)

\* ---- C7: once a run has recorded the numbers 1..N on the N files of the
\* folder, a run over the refreshed track list, with at most one new file
\* in the folder, leaves these N numbers as they are and records N+1 on
\* the new file.
Numbered(t, d) == {id \in DOMAIN d : parseInt(t[id].trackNumber) > 0}

C7Before ==
    /\ applyResult.called
    /\ Numbered(tags, disk) # {}
    /\ {parseInt(tags[id].trackNumber) : id \in Numbered(tags, disk)}
          = 1..Cardinality(Numbered(tags, disk))
    /\ Cardinality(DOMAIN disk \ Numbered(tags, disk)) <= 1
    /\ trackList \in Listings(disk, tags, fileState)
    /\ \A id \in DOMAIN disk :
          fileState[id] = "ok" /\ FoundMatch(tags[id], ValidSearches(rulesList[1]))

C7_IncrementalStability ==
    [][(C7Before /\ runs' = runs + 1) =>
          /\ \A id \in Numbered(tags, disk) :
                id \in DOMAIN disk' /\ tags'[id].trackNumber = tags[id].trackNumber
          /\ \A id \in DOMAIN disk \ Numbered(tags, disk) :
                /\ id \in DOMAIN disk'
                /\ parseInt(tags'[id].trackNumber)
                      = Cardinality(Numbered(tags, disk)) + 1]_vars

C9For(handler, result) ==
    result.called =>
        LET files == result.args.filesData IN
        \A p \in Permutations(Len(files)) :
            LET other == Matches(handler, result.args.namingRules, Permuted(files, p))
            IN \A i \in DOMAIN result.matches :
                  LastNumber(other, result.matches[i].originalPath)
                     = LastNumber(result.matches, result.matches[i].originalPath)

C9_NumbersIndependentOfListOrder ==
    C9For("preview", previewResult) /\ C9For("apply", applyResult)

\* ---- C10: a preview writes no tag, renames no file and leaves the track
\* records of the list as they are.
C10_PreviewChangesNoFile ==
    [][previewResult' # previewResult =>
          /\ disk' = disk
          /\ tags' = tags
          /\ trackList' = trackList]_vars

\* a preview has returned matches whose new names and numbers differ from
\* what the files carry
C10_Witness ==
    /\ previewResult.called
    /\ \E i \in DOMAIN previewResult.matches :
          LET match == previewResult.matches[i] IN
          /\ match.newFilename # match.originalFilename
          /\ existsSync(disk, match.originalPath)
          /\ tags[FileAt(disk, match.originalPath)].trackNumber
                # toString(match.variables.number)

\* ---- the state of the file loop of apply when it reaches match i, and
\* after it has handled match i, for the call made by the step
RECURSIVE ApplyUpTo(_, _, _)
ApplyUpTo(st, fileIndex, last) ==
    IF fileIndex > last THEN st
    ELSE ApplyUpTo(ApplyFile(st, fileIndex), fileIndex + 1, last)

Reaching(i) ==
    ApplyUpTo([disk |-> disk, tags |-> tags, fileState |-> fileState,
               matches |-> applyResult'.matches, updated |-> 0, results |-> <<>>],
              1, i - 1)

Handled(i) == ApplyFile(Reaching(i), i)

IsApplyStep == runs' = runs + 1

\* the write of the tags of match i is attempted and fails
WriteFails(i) ==
    LET before == Reaching(i)
        path == applyResult'.matches[i].originalPath
    IN /\ existsSync(before.disk, path)
       /\ fileState[FileAt(before.disk, path)] \in {"unwritable", "rejected"}

\* ---- C11: a match whose tag write fails gets a result with success
\* false, its file is not renamed and not counted in updated, and every
\* match of the batch still gets its result.
C11_FailedWriteIsFailure ==
    [][IsApplyStep =>
          \A i \in DOMAIN applyResult'.matches :
              WriteFails(i) =>
                  /\ Len(applyResult'.results) = Len(applyResult'.matches)
                  /\ applyResult'.results[i].success = FALSE
                  /\ Handled(i).disk = Reaching(i).disk
                  /\ Handled(i).updated = Reaching(i).updated]_vars

\* the rename of the file of match i is attempted, after its tags were
\* written, and fails
RenameFails(i) ==
    LET before == Reaching(i)
        match == applyResult'.matches[i]
    IN /\ existsSync(before.disk, match.originalPath)
       /\ fileState[FileAt(before.disk, match.originalPath)] = "locked"
       /\ match.newFilename # match.originalFilename

\* ---- C12: a match whose rename fails after its tags were written gets a
\* result with success true, a warning and the original filename as
\* newFilename; the tags written stay, the file has its original name when
\* the call returns, and every match of the batch gets its result.
C12_FailedRenameIsWarning ==
    [][IsApplyStep =>
          \A i \in DOMAIN applyResult'.matches :
              RenameFails(i) =>
                  LET match == applyResult'.matches[i]
                      id == FileAt(Reaching(i).disk, match.originalPath)
                      result == applyResult'.results[i]
                  IN /\ Len(applyResult'.results) = Len(applyResult'.matches)
                     /\ result.success = TRUE
                     /\ result.warning # <<>>
                     /\ result.newFilename = match.originalFilename
                     /\ Handled(i).tags[id] = MergedTags(Reaching(i).tags[id], match)
                     /\ Handled(i).updated = Reaching(i).updated + 1
                     /\ id \in DOMAIN disk' /\ disk'[id] = match.originalPath]_vars

\* an apply has returned a rename warning for a file that has its original
\* name and the number the match gave it in its tags
C12_Witness ==
    /\ applyResult.called
    /\ \E i \in DOMAIN applyResult.results :
          LET match == applyResult.matches[i] IN
          /\ applyResult.results[i].warning # <<>>
          /\ applyResult.results[i].success
          /\ existsSync(disk, match.originalPath)
          /\ fileState[FileAt(disk, match.originalPath)] = "locked"
          /\ tags[FileAt(disk, match.originalPath)].trackNumber
                = toString(match.variables.number)
          /\ Len(applyResult.results) > i

\* the file of match i does not exist when the loop reaches it
FileMissing(i) ==
    ~existsSync(Reaching(i).disk, applyResult'.matches[i].originalPath)

\* ---- C13: a match whose file does not exist when apply reaches it gets
\* the failure 'File not found'; no tag is written and no file renamed for
\* it, it is not counted, and every match of the batch gets its result.
C13_MissingFileIsFailure ==
    [][IsApplyStep =>
          \A i \in DOMAIN applyResult'.matches :
              FileMissing(i) =>
                  /\ Len(applyResult'.results) = Len(applyResult'.matches)
                  /\ applyResult'.results[i].success = FALSE
                  /\ applyResult'.results[i].error = <<"File not found">>
                  /\ Handled(i).disk = Reaching(i).disk
                  /\ Handled(i).tags = Reaching(i).tags
                  /\ Handled(i).updated = Reaching(i).updated]_vars

\* an apply called on a list that names a file no longer in the folder has
\* returned 'File not found' for it and has gone on to update another file
C13_Witness ==
    /\ applyResult.called
    /\ runs = 1
    /\ Cardinality(DOMAIN disk) < Len(trackList)
    /\ \E i, j \in DOMAIN applyResult.results :
          /\ i < j
          /\ applyResult.results[i].error = <<"File not found">>
          /\ applyResult.results[j].success
          /\ ~existsSync(disk, applyResult.matches[i].originalPath)
          /\ applyResult.matches[i].originalPath # applyResult.matches[j].originalPath
          /\ \A k \in DOMAIN applyResult.matches :
                k # i => applyResult.matches[k].originalPath
                            # applyResult.matches[i].originalPath

\* ---- C14: whatever happens to the single files, apply returns one
\* result per match record, in the order of the matches; updated counts the
\* results with success true; a match that ends in a failure changes no
\* file, so what was applied before it stands, and the matches after it
\* are handled.
Successes(results) == {i \in DOMAIN results : results[i].success}

C14_OneResultPerMatch ==
    [][IsApplyStep =>
          LET matches == applyResult'.matches
              results == applyResult'.results
          IN /\ Len(results) = Len(matches)
             /\ \A i \in DOMAIN matches :
                   /\ results[i].filename = matches[i].originalFilename
                   /\ results[i] = Handled(i).results[i]
                   /\ ~results[i].success =>
                         /\ Handled(i).disk = Reaching(i).disk
                         /\ Handled(i).tags = Reaching(i).tags
             /\ applyResult'.updated = Cardinality(Successes(results))]_vars

\* an apply has returned a failure for one match, then a success for a
\* later one, then a failure again, each for another file
C14_Witness ==
    /\ applyResult.called
    /\ Len(applyResult.results) = Len(applyResult.matches)
    /\ \E i, j, k \in DOMAIN applyResult.results :
          /\ i < j /\ j < k
          /\ ~applyResult.results[i].success
          /\ applyResult.results[j].success
          /\ ~applyResult.results[k].success
          /\ applyResult.results[i].error # applyResult.results[k].error
    /\ applyResult.updated >= 1

\* the user asks to cancel the first batch when cancelRequest.after of its
\* matched tracks have been handled and at least one is still to come
CancelledAt(k) ==
    /\ IsApplyStep
    /\ runs = 0
    /\ cancelRequest.requested
    /\ cancelRequest.after = k
    /\ k < Len(applyResult'.matches)

\* C15: apply-naming-changes supports cooperative cancellation: a cancel
\* request made while a batch is running is observed between two tracks;
\* no track after that point is modified, the tracks handled before it keep
\* their changes, and the call reports how many tracks were completed.
C15_CancelStopsBatch ==
    [][\A k \in 0..MaxTracks :
          CancelledAt(k) =>
              /\ disk' = Reaching(k + 1).disk
              /\ tags' = Reaching(k + 1).tags
              /\ applyResult'.updated = Reaching(k + 1).updated
              /\ Len(applyResult'.results) = k]_vars

\* ---- the older apply-naming-changes (src/src/index.js), match by match
\* the handler's state when it comes to match i of the call being made
LegacyReaching(i) ==
    LegacyFiles([disk |-> disk, tags |-> tags, fileState |-> fileState,
                 matches |-> applyResult'.matches, updated |-> 0, results |-> <<>>],
                1, i - 1, rulesList)

\* its state when match i is done
LegacyHandled(i) == LegacyFile(LegacyReaching(i), i, rulesList)

LegacyRule(i) == FindRule(rulesList, applyResult'.matches[i].ruleId)

\* match i comes to its rename and the rendered destination exists
Conflict(i) ==
    LET st == LegacyReaching(i)
        match == st.matches[i]
    IN /\ existsSync(st.disk, match.originalPath)
       /\ st.fileState[FileAt(st.disk, match.originalPath)]
            \in {"ok", "rejected", "locked"}
       /\ match.newFilename # match.originalFilename
       /\ existsSync(st.disk, Join(Dirname(match.originalPath), match.newFilename))

\* the rename of match i is not refused by the environment
Renamable(i) ==
    LET st == LegacyReaching(i)
    IN st.fileState[FileAt(st.disk, st.matches[i].originalPath)] # "locked"

\* the place of the number in a template that has one
NumberPosition(template) ==
    CHOOSE p \in DOMAIN template :
        /\ template[p].k = "pad" \/ template[p] = Var("number")
        /\ \A q \in 1..(p - 1) :
                ~(template[q].k = "pad" \/ template[q] = Var("number"))

\* the numbers of the .mp3 files of the folder whose names are the
\* rendered template with any run of digits at the place of its number
TakenNumbers(d, template, variables) ==
    LET p == NumberPosition(template)
        before == processTemplate(SubSeq(template, 1, p - 1), variables)
        after == processTemplate(SubSeq(template, p + 1, Len(template)), variables)
    IN {parseInt(Captured(NameOnly(f), before, after)) :
            f \in {g \in ExistingFiles(d) :
                    Captured(NameOnly(g), before, after) # <<>>}}

\* the template rendered with the lowest number from startNumber on that
\* no such file bears
FreeName(d, rule, variables) ==
    LET free == CHOOSE n \in rule.startNumber..(rule.startNumber + MaxListed + MaxOccupied + 1) :
                    /\ n \notin TakenNumbers(d, rule.filenameTemplate, variables)
                    /\ \A m \in rule.startNumber..(n - 1) :
                            m \in TakenNumbers(d, rule.filenameTemplate, variables)
    IN processTemplate(rule.filenameTemplate, [variables EXCEPT !.number = free])
            \o <<".mp3">>

C16For(i) ==
    LET st == LegacyReaching(i)
        match == st.matches[i]
        wanted == FreeName(st.disk, LegacyRule(i), match.variables)
        done == LegacyHandled(i)
    IN /\ done.disk = renameSync(st.disk, match.originalPath,
                                 Join(Dirname(match.originalPath), wanted))
       /\ done.results[Len(done.results)].success
       /\ done.results[Len(done.results)].warning = <<>>
       /\ done.results[Len(done.results)].newFilename = wanted

\* C16: in the older apply-naming-changes, when the rendered destination
\* exists and the rule's filenameTemplate has a number placeholder, the
\* file is renamed to the template rendered with the lowest number from
\* rule.startNumber on that is not the number of an existing .mp3 file
\* whose name is the rendered name with another number at its place.
C16_ConflictTakesLowestFreeNumber ==
    [][IsApplyStep =>
        \A i \in DOMAIN applyResult'.matches :
            (Conflict(i) /\ Renamable(i) /\ UsesNumbering(LegacyRule(i)))
                => C16For(i)]_vars

\* C17: in the older apply-naming-changes, for a filenameTemplate with a
\* number placeholder the filename chosen by the conflict resolution is
\* not the name of a file of the folder, and the rename that follows
\* replaces no file.
C17_ResolvedNameIsFree ==
    [][IsApplyStep =>
        \A i \in DOMAIN applyResult'.matches :
            (Conflict(i) /\ Renamable(i) /\ UsesNumbering(LegacyRule(i))) =>
                LET st == LegacyReaching(i)
                    done == LegacyHandled(i)
                    chosen == done.matches[i].newFilename
                IN /\ ~existsSync(st.disk,
                            Join(Dirname(st.matches[i].originalPath), chosen))
                   /\ DOMAIN done.disk = DOMAIN st.disk]_vars

SkippedWarning == <<"Metadata updated but file rename skipped">>

C18For(i) ==
    LET st == LegacyReaching(i)
        match == st.matches[i]
        id == FileAt(st.disk, match.originalPath)
        done == LegacyHandled(i)
        result == done.results[Len(done.results)]
    IN /\ done.disk = st.disk
       /\ Len(done.results) = Len(st.results) + 1
       /\ result.filename = match.originalFilename
       /\ result.success
       /\ result.warning # <<>>
       /\ result.error = <<>>
       /\ result.newFilename = match.originalFilename
       /\ done.updated = st.updated + 1
       /\ \A other \in DOMAIN st.tags \ {id} : done.tags[other] = st.tags[other]
       /\ st.fileState[id] # "rejected" =>
            /\ done.tags[id].artist = match.newArtist
            /\ done.tags[id].title = match.newTitle
            /\ done.tags[id].album = match.newAlbum
            /\ done.tags[id].album # st.tags[id].album
                    \/ st.tags[id].album = match.newAlbum
       /\ tags'[id] = done.tags[id]
            \/ \E j \in (i + 1)..Len(st.matches) :
                    st.matches[j].originalPath = match.originalPath

\* C18: in the older apply-naming-changes, when the rendered destination
\* exists and the rule's filenameTemplate has no number placeholder, the
\* file keeps its original filename, its result is a success with a
\* warning and the original filename as newFilename, the tags written
\* for it stay, and the file is counted in updated.
C18_ConflictWithoutNumberSkipsRename ==
    [][IsApplyStep =>
        \A i \in DOMAIN applyResult'.matches :
            (Conflict(i) /\ ~UsesNumbering(LegacyRule(i))) => C18For(i)]_vars

\* a call has skipped the rename of a track because the name was taken:
\* the track is where it was, its album tag is the new one, the file that
\* held the name is still there
C18_Witness ==
    /\ runs = 1
    /\ Len(applyResult.results) >= 1
    /\ applyResult.results[1].warning = SkippedWarning
    /\ applyResult.results[1].newFilename = applyResult.results[1].filename
    /\ applyResult.updated >= 1
    /\ LET match == applyResult.matches[1]
       IN /\ existsSync(disk, match.originalPath)
          /\ existsSync(disk, Join(Dirname(match.originalPath), match.newFilename))
          /\ match.newFilename # match.originalFilename
          /\ tags[FileAt(disk, match.originalPath)].album = match.newAlbum
          /\ match.newAlbum # match.originalAlbum

\* ---- processTemplate
\* text is the decimal digits of number with as many "0" in front as it
\* takes to reach the width, and none when the digits reach it alone
IsPadded(text, number, width) ==
    LET digits == toString(number)
        zeros == IF Len(digits) >= width THEN 0 ELSE width - Len(digits)
    IN /\ Len(text) = zeros + Len(digits)
       /\ \A i \in 1..zeros : text[i] = "0"
       /\ SubSeq(text, zeros + 1, Len(text)) = digits

\* the place of the first {number:NNd} of a template that has one
FirstPad(template) ==
    CHOOSE p \in DOMAIN template :
        template[p].k = "pad" /\ \A q \in 1..(p - 1) : template[q].k # "pad"

\* the length of a number padded to a width
PaddedLength(number, width) ==
    IF Len(toString(number)) >= width THEN Len(toString(number)) ELSE width

\* the part of text that begins at `from` and is as long as the padded
\* number is
PaddedPart(text, from, number, width) ==
    SubSeq(text, from, from + PaddedLength(number, width) - 1)

C19For(r) ==
    LET p == FirstPad(r.template)
        before == Render(SubSeq(r.template, 1, p - 1), r.variables, r.undefined).value
        after == Render(SubSeq(r.template, p + 1, Len(r.template)),
                        r.variables, r.undefined).value
        part == PaddedPart(r.value, Len(before) + 1, r.variables.number,
                           r.template[p].w)
    IN /\ ~r.threw
       /\ Len(r.value) >= Len(before)
                            + PaddedLength(r.variables.number, r.template[p].w)
       /\ SubSeq(r.value, 1, Len(before)) = before
       /\ IsPadded(part, r.variables.number, r.template[p].w)
       /\ ~HasPad(SubSeq(r.template, p + 1, Len(r.template)))
            => r.value = before \o part \o after

\* C19: processTemplate replaces the directive {number:NNd} by the number
\* variable left-padded with "0" to the width NN, a number of more than NN
\* digits in full; "{number:03d} - {artist}" with number 7 and artist "X"
\* gives "007 - X"; an empty template gives the empty string.
C19_PadDirective ==
    rendering.called =>
        /\ rendering.template = <<>> =>
                ~rendering.threw /\ rendering.value = <<>>
        /\ (HasPad(rendering.template) /\ "number" \in DOMAIN rendering.variables)
                => C19For(rendering)
        /\ (/\ rendering.template = PaddedName
            /\ "number" \in DOMAIN rendering.variables
            /\ "artist" \in DOMAIN rendering.variables
            /\ rendering.variables.number = 7
            /\ rendering.variables.artist = <<"X">>)
                => rendering.value = <<"0", "0", "7", " ", "-", " ", "X">>

\* "{number:03d} - {artist}" has been rendered with number 7 and artist "X"
C19_Witness ==
    /\ rendering.called
    /\ rendering.template = PaddedName
    /\ "number" \in DOMAIN rendering.variables
    /\ "artist" \in DOMAIN rendering.variables
    /\ rendering.variables.number = 7
    /\ rendering.variables.artist = <<"X">>
    /\ rendering.value = <<"0", "0", "7", " ", "-", " ", "X">>

\* what a template renders to when every placeholder whose variable has no
\* value gives the empty string
ValueOrEmpty(tok, variables) ==
    CASE tok.k = "lit" -> <<tok.v>>
      [] tok.k = "var" ->
            IF tok.v \in DOMAIN variables THEN VarValue(tok.v, variables) ELSE <<>>
      [] tok.k = "pad" ->
            IF "number" \in DOMAIN variables
            THEN padStart(toString(variables.number), tok.w) ELSE <<>>

RECURSIVE EmptyForMissing(_, _)
EmptyForMissing(template, variables) ==
    IF template = <<>> THEN <<>>
    ELSE ValueOrEmpty(Head(template), variables)
            \o EmptyForMissing(Tail(template), variables)

\* the template has one {number:NNd} at most
OnePadAtMost(template) ==
    \A i, j \in DOMAIN template :
        (template[i].k = "pad" /\ template[j].k = "pad") => i = j

\* C20: processTemplate never fails: for every template and every bag no
\* error is raised, and a placeholder whose variable is missing from the
\* bag or undefined, number under {number:NNd} included, renders as the
\* empty string.
C20_MissingRendersEmpty ==
    rendering.called =>
        /\ ~rendering.threw
        /\ OnePadAtMost(rendering.template) =>
                rendering.value = EmptyForMissing(rendering.template,
                                                  rendering.variables)

\* ---- phrase matching
\* a phrase that is not blank
NonBlank(phrase) == \E i \in DOMAIN phrase : phrase[i] # " "

\* the phrase occurs in the lyrics at some place, letter by letter with
\* the case of the letters left aside
OccursIn(phrase, lyrics) ==
    \E at \in 0..Len(lyrics) :
        /\ at + Len(phrase) <= Len(lyrics)
        /\ \A j \in 1..Len(phrase) : Lower(lyrics[at + j]) = Lower(phrase[j])

\* one of the rule's non-blank phrases occurs in the lyrics of the track
PhraseMatch(rule, file) ==
    \E i \in DOMAIN rule.lyricSearches :
        /\ NonBlank(rule.lyricSearches[i])
        /\ OccursIn(rule.lyricSearches[i], file.lyrics)

C21For(result) ==
    LET rules == result.args.namingRules
        files == result.args.filesData
        RuleOf(id) == rules[CHOOSE r \in DOMAIN rules : rules[r].id = id]
    IN (result.called /\ \A r \in DOMAIN rules : rules[r].lyricSearch = <<>>) =>
        /\ \A f \in DOMAIN files :
              (RecordsOf(result.matches, files[f].filePath) # {})
                <=> \E r \in DOMAIN rules : PhraseMatch(rules[r], files[f])
        /\ \A i \in DOMAIN result.matches :
              \E f \in DOMAIN files :
                 /\ files[f].filePath = result.matches[i].originalPath
                 /\ PhraseMatch(RuleOf(result.matches[i].ruleId), files[f])
                 /\ files[f].lyrics # <<>>

\* C21: a track matches a rule if and only if one of the rule's non-blank
\* search phrases occurs in the track's lyrics, the case of the letters
\* left aside; a track without lyrics matches no rule, and a rule whose
\* phrases are all blank or absent matches no track.
C21_MatchIffPhraseInLyrics == C21For(previewResult) /\ C21For(applyResult)

\* a preview where a phrase in capitals has matched lyrics in small
\* letters, a track without lyrics is left out and a rule with blank
\* phrases only owns nothing
C21_Witness ==
    /\ previewResult.called
    /\ Len(previewResult.args.filesData) = 2
    /\ previewResult.args.filesData[1].lyrics = <<"m">>
    /\ previewResult.args.filesData[2].lyrics = <<>>
    /\ previewResult.args.namingRules[1].lyricSearches = << <<" ">> >>
    /\ previewResult.args.namingRules[2].lyricSearches = << <<" ">>, <<"M">> >>
    /\ Len(previewResult.matches) = 1
    /\ previewResult.matches[1].ruleId = 2
    /\ previewResult.matches[1].originalPath
            = previewResult.args.filesData[1].filePath

\* ---- the two shapes of a rule
\* the list form of a rule in which no phrase is lost: the legacy phrase,
\* when it is not blank, is one phrase of the list
WithLegacyPhrase(rule) ==
    [rule EXCEPT !.lyricSearch = <<>>,
                 !.lyricSearches =
                    IF NonBlank(rule.lyricSearch)
                          /\ \A i \in DOMAIN @ : @[i] # rule.lyricSearch
                    THEN Append(@, rule.lyricSearch) ELSE @]

\* the list form of a rule in which the legacy phrase counts only when the
\* rule has no list or an empty one
WithLegacyPhraseIfNoList(rule) ==
    [rule EXCEPT !.lyricSearch = <<>>,
                 !.lyricSearches =
                    IF Len(@) = 0 /\ rule.lyricSearch # <<>>
                    THEN <<rule.lyricSearch>> ELSE @]

C22For(handler, result, ListForm(_)) ==
    result.called =>
        LET rules == result.args.namingRules
        IN result.matches =
            Matches(handler, [r \in DOMAIN rules |-> ListForm(rules[r])],
                    result.args.filesData)

\* C22: a rule in the legacy shape (one lyricSearch string) behaves exactly
\* like the same rule with lyricSearches equal to the one-element list of
\* that string: preview and apply produce the same matches for both; and
\* whenever a rule carries a non-blank legacy lyricSearch, that phrase is
\* not lost.
C22_LegacyPhraseNeverLost ==
    /\ C22For("preview", previewResult, WithLegacyPhrase)
    /\ C22For("apply", applyResult, WithLegacyPhrase)

\* C22 as the handlers have it: the legacy lyricSearch stands for the
\* one-element list of that string when the rule has no lyricSearches or an
\* empty list, and is not read when the list holds any phrase, a blank one
\* included.
C22_LegacyPhraseUsedWithoutList ==
    /\ C22For("preview", previewResult, WithLegacyPhraseIfNoList)
    /\ C22For("apply", applyResult, WithLegacyPhraseIfNoList)

\* a preview has matched a track by the phrase of a rule in the legacy
\* shape
C22_Witness ==
    /\ previewResult.called
    /\ previewResult.args.namingRules[1].lyricSearch = <<"M">>
    /\ previewResult.args.namingRules[1].lyricSearches = <<>>
    /\ Len(previewResult.matches) >= 1
    /\ previewResult.matches[1].ruleId = 1
    /\ \E f \in DOMAIN previewResult.args.filesData :
          /\ previewResult.args.filesData[f].filePath
                = previewResult.matches[1].originalPath
          /\ previewResult.args.filesData[f].lyrics = <<"m">>

\* What the genre claims are stated over: the tracks of a cleanup, the
\* genres of a track all selected or not, and the file a track is stored in.
Cleaned == IF cleaning.called THEN DOMAIN cleaning.before ELSE {}

AllSelected(i) == Range(cleaning.before[i]) \subseteq cleaning.remove

WrittenGenres(i) ==
    SplitGenres(tags[FileAt(disk, trackList[i].filePath)].genre)

\* C23: genre cleanup never empties a track: for every genre list with at
\* least one genre and every set of genres to remove, the list after the
\* cleanup has at least one genre and every genre in it was in the original
\* list; so has the genre tag that update-mp3-genres wrote for it.
C23_CleanupNeverEmpties ==
    \A i \in Cleaned :
        cleaning.before[i] # <<>> =>
            /\ cleaning.after[i] # <<>>
            /\ Range(cleaning.after[i]) \subseteq Range(cleaning.before[i])
            /\ cleaning.results[i].success =>
                    /\ WrittenGenres(i) # <<>>
                    /\ Range(WrittenGenres(i)) \subseteq Range(cleaning.before[i])

\* every genre of a track of three genres was selected, and the tag written
\* for it holds two of them
C23_Witness ==
    /\ cleaning.called
    /\ Len(cleaning.before[1]) = 3
    /\ AllSelected(1)
    /\ cleaning.results[1].success
    /\ Len(WrittenGenres(1)) = 2
    /\ Range(WrittenGenres(1)) \subseteq Range(cleaning.before[1])

\* C24: when every genre of a track is selected for removal and the track
\* has 1 or 2 genres, cleanGenre returns the original list unchanged:
\* clean(["rap"], ["rap"]) = ["rap"], and
\* clean(["jazz","blues"], ["jazz","blues"]) = ["jazz","blues"].
C24_OneOrTwoGenresKept ==
    /\ \A i \in Cleaned :
        (Len(cleaning.before[i]) \in {1, 2} /\ AllSelected(i))
            => cleaning.after[i] = cleaning.before[i]
    /\ cleanGenre(<<"rap">>, {"rap"}) = {<<"rap">>}
    /\ cleanGenre(<<"jazz", "blues">>, {"jazz", "blues"})
            = {<<"jazz", "blues">>}

\* both genres of "jazz; blues" were selected and both are kept
C24_Witness ==
    /\ cleaning.called
    /\ cleaning.before[1] = <<"jazz", "blues">>
    /\ cleaning.remove = {"jazz", "blues"}
    /\ cleaning.after[1] = <<"jazz", "blues">>

\* the genres of a track that its cleaned list leaves out
LeftOut(i) == Range(cleaning.before[i]) \ Range(cleaning.after[i])

\* C25: when every genre of a track is selected for removal and the track
\* has 3 or more genres, cleanGenre returns exactly two genres, both from
\* the original list, and no genre left out is strictly shorter (by string
\* length) than a genre kept.
C25_TwoShortestKept ==
    \A i \in Cleaned :
        (Len(cleaning.before[i]) >= 3 /\ AllSelected(i)) =>
            /\ Len(cleaning.after[i]) = 2
            /\ Range(cleaning.after[i]) \subseteq Range(cleaning.before[i])
            /\ \A out \in LeftOut(i), kept \in Range(cleaning.after[i]) :
                    Len(out) >= Len(kept)
            /\ cleaning.before[i] =
                    <<"electronic", "dark", "atmospheric", "emd", "glitch">>
                => Range(cleaning.after[i]) = {"emd", "dark"}

\* the five genres of the example were all selected, "emd" and "dark" stay
C25_Witness ==
    /\ cleaning.called
    /\ cleaning.before[1] =
            <<"electronic", "dark", "atmospheric", "emd", "glitch">>
    /\ AllSelected(1)
    /\ Range(cleaning.after[1]) = {"emd", "dark"}
    /\ Len(cleaning.after[1]) = 2

\* the genres of a list that are not selected, in the order of the list
RECURSIVE NotSelected(_, _)
NotSelected(list, remove) ==
    IF list = <<>> THEN <<>>
    ELSE (IF Head(list) \in remove THEN <<>> ELSE <<Head(list)>>)
            \o NotSelected(Tail(list), remove)

\* C26: when at least one genre of a track is not selected for removal,
\* cleanGenre returns exactly the track's genres that are not selected, in
\* their original order, and removes every selected one; the result for a
\* track depends only on that track's own genre list and the selection,
\* never on other tracks.
C26_PartialSelectionRemoved ==
    /\ \A i \in Cleaned :
        ~AllSelected(i) =>
            /\ cleaning.after[i] =
                    NotSelected(cleaning.before[i], cleaning.remove)
            /\ Range(cleaning.after[i]) \cap cleaning.remove = {}
            /\ cleaning.after[i] \in
                    cleanGenre(cleaning.before[i], cleaning.remove)
            /\ \A j \in Cleaned :
                    cleaning.before[j] = cleaning.before[i]
                        => cleaning.after[j] = cleaning.after[i]
    /\ cleanGenre(<<"rap", "hip-hop", "dark", "bass", "emd">>, {"dark", "emd"})
            = {<<"rap", "hip-hop", "bass">>}

\* "dark" and "emd" were removed from the track of the example, listed with
\* another track that loses all its genres but two
C26_Witness ==
    /\ cleaning.called
    /\ Len(cleaning.before) = 2
    /\ cleaning.before[1] = <<"rap", "hip-hop", "dark", "bass", "emd">>
    /\ cleaning.remove = {"dark", "emd"}
    /\ cleaning.after[1] = <<"rap", "hip-hop", "bass">>
    /\ cleaning.before[2] = <<"dark", "emd", "blues">>
    /\ cleaning.after[2] = <<"blues">>

\* What the scan claim is stated over: the .mp3 files of the folder, the
\* records returned for a file, and the record of a file that can be read.
Mp3Files ==
    {id \in DOMAIN disk :
        disk[id][Len(disk[id])] \in {".mp3", ".MP3"}}

ScannedAs(id) ==
    {i \in DOMAIN scanResult.results :
        scanResult.results[i].filePath = disk[id]}

ReadableRecord(id) ==
    [filename |-> Tail(disk[id]), filePath |-> disk[id],
     genre |-> IF tags[id].genre = <<>> THEN <<"Unknown">> ELSE tags[id].genre,
     title |-> tags[id].title, artist |-> tags[id].artist,
     album |-> tags[id].album, lyrics |-> <<>>,
     trackNumber |-> <<>>, year |-> <<>>]

\* C27: read-mp3-metadata isolates per-file errors and is fatal only at
\* batch level: when the folder cannot be listed the call fails with a
\* single error and returns no track list; when a file's tags cannot be
\* read the scan does not abort, it still returns exactly one record for
\* every .mp3 file of the folder, and the records of the other files are
\* unaffected.
C27_ScanIsolatesFileErrors ==
    scanResult.called =>
        IF folderState = "unlistable"
        THEN scanResult.threw /\ scanResult.results = <<>>
        ELSE /\ ~scanResult.threw
             /\ Len(scanResult.results) = Cardinality(Mp3Files)
             /\ \A id \in Mp3Files :
                    /\ Cardinality(ScannedAs(id)) = 1
                    /\ fileState[id] = "ok" =>
                        \A i \in ScannedAs(id) :
                            scanResult.results[i] = ReadableRecord(id)

\* a folder was scanned that holds a file whose tags cannot be read, a
\* later .mp3 file that can be read and a file that is no .mp3 file: each
\* of the two .mp3 files has its record
C27_Witness ==
    /\ scanResult.called
    /\ ~scanResult.threw
    /\ \E bad, good \in Mp3Files :
        /\ bad < good
        /\ fileState[bad] = "unreadable"
        /\ fileState[good] = "ok"
        /\ Cardinality(ScannedAs(bad)) = 1
        /\ \E i \in ScannedAs(good) :
                scanResult.results[i] = ReadableRecord(good)
    /\ DOMAIN disk \ Mp3Files # {}
    /\ trackList = scanResult.results

\* What the scraping claim is stated over: the sessions for which
\* stop-scraping was handled while they were pending.
StoppedSession(k) ==
    /\ k \in StartedCalls
    /\ sessions.calls[k].stopped

ReturnedSession(k) ==
    /\ StoppedSession(k)
    /\ sessions.calls[k].pc = "returned"

\* a stopped session begins no further file
NoFurtherFile ==
    \A k \in DOMAIN sessions.calls :
        StoppedSession(k) =>
            (sessions.calls[k].begun)' = sessions.calls[k].begun

\* a stopped session that has returned did so with the counts of the files
\* it processed
ReturnedWithCounts ==
    \A k \in DOMAIN sessions.calls :
        ReturnedSession(k) =>
            /\ sessions.calls[k].result.success
            /\ sessions.calls[k].result.stats.processed
                    = sessions.calls[k].handled

\* once the stopped sessions have returned, no other session pending,
\* nothing runs and no browser is referred to
StoppedAtRest ==
    (/\ \E k \in DOMAIN sessions.calls : ReturnedSession(k)
     /\ \A k \in StartedCalls : ~Pending(sessions.calls[k]))
        => /\ ~scraperState.isRunning
           /\ scraperState.browser = "null"

\* C28: scraping stops gracefully: after stop-scraping is handled while a
\* session is running, the session begins processing no further file (at
\* most the file in progress is finished), the pending start-scraping call
\* eventually returns with the counts of the files processed so far, and
\* afterwards isRunning is false and the browser reference is null.
C28_ScrapingStopsGracefully ==
    /\ [][NoFurtherFile]_vars
    /\ [](ReturnedWithCounts /\ StoppedAtRest)
    /\ \A k \in 1..(MaxSessions + MaxStops) :
            StoppedSession(k) ~> ReturnedSession(k)

\* What the rename claim is stated over: a run of apply-naming-changes, the
\* matched files of the folder it starts on, and the names it was to give.
ApplyRuns == runs' = runs + 1

Rendered == applyResult'.matches

TargetPath(match) == Join(Dirname(match.originalPath), match.newFilename)

TempPath(match) ==
    Join(Dirname(match.originalPath), <<"Temp_">> \o match.newFilename)

MatchedFiles ==
    {id \in DOMAIN disk :
        \E i \in DOMAIN Rendered : Rendered[i].originalPath = disk[id]}

\* the rendered names of the matched tracks are pairwise distinct
DistinctTargets ==
    \A i, j \in DOMAIN Rendered :
        Rendered[i].originalPath # Rendered[j].originalPath
            => Rendered[i].newFilename # Rendered[j].newFilename

\* no file that is not matched holds a rendered name or its Temp_ form
TargetsFree ==
    \A id \in DOMAIN disk \ MatchedFiles, i \in DOMAIN Rendered :
        disk[id] \notin {TargetPath(Rendered[i]), TempPath(Rendered[i])}

\* C29: two-phase rename: when the rendered target filenames of the
\* matched tracks are pairwise distinct and none of them (nor its
\* Temp_-prefixed form) is held by an unmatched file, then after
\* apply-naming-changes every matched track whose file existed is stored
\* under exactly its rendered target filename, even when targets were
\* initially occupied by other matched tracks, and no file is left with a
\* Temp_ prefix.
C29_TwoPhaseRename ==
    [][(ApplyRuns /\ DistinctTargets /\ TargetsFree) =>
        /\ \A i \in DOMAIN Rendered :
              existsSync(disk, Rendered[i].originalPath) =>
                LET id == FileAt(disk, Rendered[i].originalPath)
                IN id \in DOMAIN disk' /\ disk'[id] = TargetPath(Rendered[i])
        /\ \A id \in MatchedFiles :
              id \in DOMAIN disk' => disk'[id][2] # "Temp_"]_vars

\* What the termination claim is stated over: the iterations the numbering
\* loop of a group has executed when it ends (currentTrack starts at 1 and
\* is incremented once in every iteration), and the groups of a call.
Iterations(handler, albumFiles) ==
    NumberGroup(handler, albumFiles).currentTrack - 1

C30For(handler, result) ==
    result.called =>
        LET entries == EntriesOf(handler, result)
            keys == GroupKeys(entries, {})
        IN \A g \in DOMAIN keys :
              Iterations(handler, AlbumFiles(entries, keys[g]))
                    <= Len(AlbumFiles(entries, keys[g]))

\* C30: the numbering loop of every group terminates and converges in a
\* single pass: in both preview and apply it executes at most as many
\* iterations as the group has entries, whatever the recorded track numbers
\* of the entries are and in whatever order they appear.
C30_LoopWithinGroupSize ==
    C30For("preview", previewResult) /\ C30For("apply", applyResult)

\* What the scan-number claim is stated over: a scan that returned a list,
\* and the file a returned record was read from.
ScanReturns == scans' = scans + 1 /\ ~scanResult'.threw

\* C31: every track record created by the bulk metadata scan carries the
\* track number recorded in the file's tags, so that a preview or apply
\* over freshly scanned tracks sees as already numbered exactly the tracks
\* whose files hold a positive track number.
C31_ScanCarriesTrackNumber ==
    [][ScanReturns =>
        \A i \in DOMAIN scanResult'.results :
            LET id == FileAt(disk, scanResult'.results[i].filePath)
            IN fileState[id] # "unreadable" =>
                /\ scanResult'.results[i].trackNumber = tags[id].trackNumber
                /\ (parseInt(trackList'[i].trackNumber) > 0)
                        = (parseInt(tags[id].trackNumber) > 0)]_vars

\* What the frame claim is stated over: the records of a run that name a
\* file of the folder the run starts on.
RecordsFor(id) ==
    {i \in DOMAIN Rendered : Rendered[i].originalPath = disk[id]}

\* a matched file's genre and lyrics are written back as they were, and
\* artist, title, album and track number change only to a new value that
\* differs from the original one
MatchedFrame(id) ==
    /\ tags'[id].genre = tags[id].genre
    /\ tags'[id].lyrics = tags[id].lyrics
    /\ tags'[id].artist # tags[id].artist =>
            \E i \in RecordsFor(id) :
                /\ Rendered[i].newArtist # Rendered[i].originalArtist
                /\ tags'[id].artist = Rendered[i].newArtist
    /\ tags'[id].title # tags[id].title =>
            \E i \in RecordsFor(id) :
                /\ Rendered[i].newTitle # Rendered[i].originalTitle
                /\ tags'[id].title = Rendered[i].newTitle
    /\ tags'[id].album # tags[id].album =>
            \E i \in RecordsFor(id) :
                /\ Rendered[i].newAlbum # Rendered[i].originalAlbum
                /\ tags'[id].album = Rendered[i].newAlbum
    /\ tags'[id].trackNumber # tags[id].trackNumber =>
            \E i \in RecordsFor(id) :
                tags'[id].trackNumber = toString(Rendered[i].variables.number)

\* a file that no rule matched keeps its tags and its name
UnmatchedFrame(id) ==
    /\ id \in DOMAIN disk'
    /\ disk'[id] = disk[id]
    /\ tags'[id] = tags[id]

\* C32: apply-naming-changes changes, in a matched file's tags, only
\* artist, title, album and track number, and each of these only when its
\* new value differs from the original value; genre and lyrics are written
\* back unchanged, and a track that no rule matched has neither its tags
\* nor its filename changed by the run.
C32_ApplyFrame ==
    [][ApplyRuns =>
        \A id \in DOMAIN disk :
            IF RecordsFor(id) # {} THEN MatchedFrame(id)
            ELSE UnmatchedFrame(id)]_vars

\* What the single-loop claim is stated over: the start-scraping calls that
\* stand inside the loop over the files, and a start-scraping call handled
\* while a session is running.
InLoop(k) ==
    /\ k \in StartedCalls
    /\ sessions.calls[k].pc \in
            {"restart-closing", "restart-launching", "scraping", "delaying"}

AtMostOneLoop ==
    \A j, k \in DOMAIN sessions.calls : InLoop(j) /\ InLoop(k) => j = k

StartRefused ==
    (/\ scraperState.isRunning
     /\ Len(sessions'.calls) = Len(sessions.calls) + 1
     /\ sessions'.calls[Len(sessions'.calls)].handler = "start-scraping")
        => /\ sessions'.calls[Len(sessions'.calls)].pc = "returned"
           /\ sessions'.calls[Len(sessions'.calls)].result =
                    [success |-> FALSE,
                     error |-> <<"Scraping is already running">>]
           /\ scraperState' = scraperState

\* C33: at most one scraping loop is active at any time: start-scraping
\* invoked while a session is running returns success false with the error
\* 'Scraping is already running' without changing the scraper state, and in
\* every interleaving of start-scraping and stop-scraping calls (a stop
\* followed by a new start while the first loop is still suspended in an
\* await included) no two loops process files concurrently.
C33_OneScrapingLoop ==
    /\ [][StartRefused]_vars
    /\ []AtMostOneLoop

\* What the counter claim is stated over: the counters a progress report
\* shows, a step in which a call has handled a file (the report follows the
\* count at once), and the stats a start-scraping call has returned.
Consistent(stats) ==
    /\ stats.processed = stats.successful + stats.errors + stats.skipped
    /\ stats.processed <= stats.total

FileHandled ==
    \E k \in DOMAIN sessions.calls :
        /\ sessions.calls[k].handler = "start-scraping"
        /\ (sessions.calls[k].handled)' > sessions.calls[k].handled

ReturnedStats ==
    \A k \in StartedCalls :
        (/\ sessions.calls[k].pc = "returned"
         /\ sessions.calls[k].result.success)
            => Consistent(sessions.calls[k].result.stats)

\* C34: the scraper counters stay consistent: at every progress report sent
\* after a file has been handled and when start-scraping returns,
\* processed = successful + errors + skipped and processed <= total, in
\* every interleaving of start-scraping and stop-scraping calls.
C34_CountersConsistent ==
    /\ [][FileHandled => Consistent(Stats(scraperState))']_vars
    /\ []ReturnedStats

\* What the reported-name claim is stated over: the file a per-file result
\* speaks of, by the path it had when the run started.
ResultPath(result) == Join(Dir, result.filename)

StoredUnderReportedName(result) ==
    LET id == FileAt(disk, ResultPath(result))
    IN /\ id \in DOMAIN disk'
       /\ disk'[id] = Join(Dir, result.newFilename)

\* C35: for every per-file result of apply-naming-changes with success
\* true, the reported newFilename is the name under which that file is
\* stored in the directory when the call returns, files that were first
\* parked under a Temp_ name included.
C35_ReportedNameIsStored ==
    [][ApplyRuns =>
        \A i \in DOMAIN applyResult'.results :
            (/\ applyResult'.results[i].success
             /\ existsSync(disk, ResultPath(applyResult'.results[i])))
                => StoredUnderReportedName(applyResult'.results[i])]_vars

\* What the written-number claim is stated over: the records of a run as
\* they were pushed, each with the number its names were rendered with, and
\* the records whose file the run wrote.
AsRendered ==
    LET allMatches == CollectMatches("apply", rulesList, trackList)
    IN NumberGroups("apply", allMatches, GroupKeys(allMatches, {}), 1)

AppliedMatches ==
    {i \in DOMAIN applyResult'.results :
        /\ applyResult'.results[i].success
        /\ existsSync(disk, Rendered[i].originalPath)
        /\ fileState[FileAt(disk, Rendered[i].originalPath)] # "rejected"}

\* C36: for every match that apply-naming-changes applies successfully, the
\* track number written to the file's tag equals the number that was
\* rendered into that match's new title, album and filename, for every
\* group, groups with recorded, duplicated or gapped track numbers
\* included.
C36_WrittenNumberIsRendered ==
    [][ApplyRuns =>
        \A i \in AppliedMatches :
            tags'[FileAt(disk, Rendered[i].originalPath)].trackNumber
                = toString(AsRendered[i].variables.number)]_vars

\* ------------------------------------- rules without a filename template
\* filenameTemplate '' and ' '
NoName == <<>>
BlankName == <<Lit(" ")>>

\* tracks with any recorded numbers under rules that name no file
InitUnnamed ==
    \E n \in 1..MaxTracks :
        \E nums \in [1..n -> 0..MaxRecorded],
           filenameTemplate \in {NoName, BlankName} :
            LET files == [i \in 1..n |->
                            TrackRecord(i, Recorded(nums[i]), <<"A">>, <<"L", "m">>)]
            IN InitFrom(RulesWith(<<Lit("C")>>, filenameTemplate),
                        files, files, AllOk(n))

SpecUnnamed == InitUnnamed /\ [][NextHandlers]_vars

\* What the empty-template claim is stated over: the rule of a match record
\* and a template with nothing but blanks in it.
RuleOf(match) ==
    CHOOSE rule \in Range(rulesList) : rule.id = match.ruleId

Blank(template) == \A i \in DOMAIN template : template[i] = Lit(" ")

KeepsName(match) ==
    Blank(RuleOf(match).filenameTemplate)
        => match.newFilename = match.originalFilename

NotRenamed(match) ==
    (/\ Blank(RuleOf(match).filenameTemplate)
     /\ existsSync(disk, match.originalPath))
        => LET id == FileAt(disk, match.originalPath)
           IN id \in DOMAIN disk' /\ disk'[id] = disk[id]

\* C37: a rule whose filenameTemplate is empty or blank never renames a
\* file: for every track it matches, the match's newFilename equals the
\* track's original filename in both preview-naming-changes and
\* apply-naming-changes, and apply performs no rename for it.
C37_NoTemplateNoRename ==
    /\ [](\A i \in DOMAIN previewResult.matches :
                KeepsName(previewResult.matches[i]))
    /\ [][ApplyRuns =>
            \A i \in DOMAIN Rendered :
                KeepsName(Rendered[i]) /\ NotRenamed(Rendered[i])]_vars

\* What the summary claim is stated over: the per-file results of a run
\* whose success is true.
SuccessResults(results) == {i \in DOMAIN results : results[i].success}

\* C38: in the summary returned by apply-naming-changes, updated equals the
\* number of per-file results whose success is true (results with a rename
\* warning included), for every combination of per-file outcomes.
C38_UpdatedCountsSuccesses ==
    applyResult.called =>
        applyResult.updated = Cardinality(SuccessResults(applyResult.results))

\* a run with a renamed file, a file whose rename failed and a failed file
C38_Witness ==
    /\ applyResult.called
    /\ \E i, j, k \in DOMAIN applyResult.results :
            /\ applyResult.results[i].success
            /\ applyResult.results[i].warning = <<>>
            /\ applyResult.results[i].newFilename # applyResult.results[i].filename
            /\ applyResult.results[j].success
            /\ applyResult.results[j].warning # <<>>
            /\ ~applyResult.results[k].success

====
